---- MODULE Spec2Model ----
(***************************************************************************)
(* The Copilot streaming normalizer (CopilotStreamer, a futures Stream     *)
(* over an SSE event source) as a state machine.  Each streamer owns its   *)
(* event source, its options, its done flag and its captured data.  A poll *)
(* is one call of poll_next: it reads transport events until one of them   *)
(* yields an item, the transport is not ready, or the transport is closed. *)
(*                                                                         *)
(* Strings are sequences of tokens, so that push_str is \o and the empty   *)
(* string is << >>.  Option<T> is None or Some(x).                         *)
(***************************************************************************)
EXTENDS Integers, Sequences, FiniteSets, TLC

\* Longest transport script of the single-stream specification.
MaxFrames == 3
\* Longest transport script of the frame-level specification.
MaxFragments == 3
\* Longest transport script of each stream of the two-stream specification.
MaxFramesTwo == 2
\* Most messages of a chat request whose messages are translated.
MaxMessages == 1
\* Most content parts, tool calls or tool responses of one message.
MaxParts == 2
\* Most entries of the data array of a model-listing response.
MaxModels == 2
\* Most calls of one capability function with the same arguments.
MaxCalls == 2
\* Longest transport script of the item-level specification.
MaxItems == 2
MaxRun == 3
MaxBuilds == 3

VARIABLES
    event_source,   \* per streamer: the transport events not yet read
    options,        \* per streamer: the capture flags
    done,           \* per streamer: the done flag
    captured_data,  \* per streamer: the accumulators (usage, content, ...)
    dropped,        \* per streamer: TRUE once the caller dropped the stream
    delivered,      \* history: the transport events the streamer has read
    out,            \* history: the items the streamer has yielded
    last,           \* per streamer: the result of the latest poll
    call,           \* the adapter operation being called, with its arguments
    trace,          \* history: the resolvers invoked for the call, in order
    ret             \* what that operation returned, None until it returns

vars == <<event_source, options, done, captured_data, dropped, delivered, out, last,
          call, trace, ret>>

None == [some |-> FALSE]
Some(x) == [some |-> TRUE, v |-> x]

-----------------------------------------------------------------------------
(* Wire data *)

Whitespace == {" ", "\n"}

RECURSIVE TrimStart(_)
TrimStart(s) ==
    IF s /= << >> /\ Head(s) \in Whitespace THEN TrimStart(Tail(s)) ELSE s

RECURSIVE TrimEnd(_)
TrimEnd(s) ==
    IF s /= << >> /\ s[Len(s)] \in Whitespace
    THEN TrimEnd(SubSeq(s, 1, Len(s) - 1))
    ELSE s

\* str::trim
Trim(s) == TrimEnd(TrimStart(s))

\* u32 as i32: values above i32::MAX wrap around by 2^32
AsI32(n) == IF n <= 2147483647 THEN n ELSE (n - 2147483647) - 2147483647 - 2

\* serde_json::from_str::<Value>: a balanced object parses, anything else fails
JsonFromStr(args) ==
    IF Len(args) >= 2 /\ Head(args) = "{" /\ args[Len(args)] = "}"
    THEN Some([object |-> SubSeq(args, 2, Len(args) - 1)])
    ELSE None

\* serde_json::Value::default()
JsonDefault == [null |-> TRUE]

CopilotUsage(p, c) == [prompt_tokens |-> p, completion_tokens |-> c, total_tokens |-> p + c]

CopilotDeltaFunctionCall(name, arguments) == [name |-> name, arguments |-> arguments]

CopilotDeltaToolCall(id, function) == [id |-> id, function |-> function]

CopilotDelta(content, tool_calls) == [content |-> content, tool_calls |-> tool_calls]

CopilotStreamChoice(delta, finish_reason) == [delta |-> delta, finish_reason |-> finish_reason]

CopilotStreamResponse(choices, usage) == [choices |-> choices, usage |-> usage]

\* A message payload: its text, and the value it deserializes to (if any).
RawData(text) == [text |-> text, value |-> None]
JsonData(resp) == [text |-> <<"{", "json", "}">>, value |-> Some(resp)]

\* from_str::<CopilotStreamResponse>
FromStr(data) == data.value

EventOpen == [ev |-> "Open"]
EventMessage(data) == [ev |-> "Message", data |-> data]
EventError == [ev |-> "Error"]
\* the transport has nothing ready: its poll returns Pending once
NotReady == [ev |-> "NotReady"]

-----------------------------------------------------------------------------
(* The payloads the transport scripts are drawn from *)

ArgsValid == <<"{", "q:x", "}">>
ArgsPartial == <<"{", "q:">>

NoDelta == CopilotDelta(None, None)
TextFrame(t, fin) ==
    JsonData(CopilotStreamResponse(<<CopilotStreamChoice(CopilotDelta(Some(t), None), fin)>>, None))
ToolFrame(id, function, fin) ==
    JsonData(CopilotStreamResponse(
        <<CopilotStreamChoice(CopilotDelta(None, Some(<<CopilotDeltaToolCall(id, function)>>)), fin)>>,
        None))

DoneData == RawData(<<"[DONE]">>)
PaddedDoneData == RawData(<<" ", "[DONE]", "\n">>)
GarbageData == RawData(<<"{", "oops">>)
Heartbeat == JsonData(CopilotStreamResponse(<< >>, None))
UsageOnly == JsonData(CopilotStreamResponse(<< >>, Some(CopilotUsage(3, 4))))
Hello == TextFrame(<<"Hello">>, None)
WorldFinish == TextFrame(<<" world">>, Some("stop"))
FinishUsage ==
    JsonData(CopilotStreamResponse(<<CopilotStreamChoice(NoDelta, Some("stop"))>>,
                                   Some(CopilotUsage(5, 6))))
FragId == ToolFrame(Some("call_1"), None, None)
FragName == ToolFrame(None, Some(CopilotDeltaFunctionCall(Some("search"), None)), None)
FragArgs == ToolFrame(None, Some(CopilotDeltaFunctionCall(None, Some(ArgsValid))), None)
ToolComplete ==
    ToolFrame(Some("call_2"), Some(CopilotDeltaFunctionCall(Some("search"), Some(ArgsValid))), None)

Payloads ==
    {DoneData, PaddedDoneData, GarbageData, Heartbeat, UsageOnly, Hello, WorldFinish, FinishUsage,
     FragId, FragName, FragArgs, ToolComplete}

TransportEvents == {EventOpen, EventError, NotReady} \cup {EventMessage(d) : d \in Payloads}

\* the stream's life cycle and its captures: what Spec draws its scripts from
LifecycleEvents ==
    {EventOpen, EventError, NotReady} \cup
    {EventMessage(d) : d \in {DoneData, GarbageData, Heartbeat, UsageOnly, Hello, WorldFinish,
                              FinishUsage, ToolComplete}}

\* heartbeats, tool-call fragments and a transport that is not ready: SpecFrames
FrameEvents ==
    {EventOpen, NotReady} \cup
    {EventMessage(d) : d \in {PaddedDoneData, Heartbeat, FragId, FragName, FragArgs,
                              ToolComplete}}

\* two concurrent streams: SpecTwo
TwoStreamEvents ==
    {EventError} \cup {EventMessage(d) : d \in {DoneData, GarbageData, Hello}}

\* frames with nothing to yield, frames with one item and frames with
\* several, tool calls with valid, unfinished and absent arguments: SpecItems
ItemEvents ==
    LET Function(arguments) == Some(CopilotDeltaFunctionCall(Some("search"), arguments))
        Frame(content, tool_calls, fin) ==
            EventMessage(JsonData(CopilotStreamResponse(
                <<CopilotStreamChoice(CopilotDelta(content, tool_calls), fin)>>, None)))
        Call(id, arguments) == CopilotDeltaToolCall(Some(id), Function(arguments))
    IN  {EventOpen, NotReady, EventMessage(DoneData), EventMessage(Heartbeat),
         EventMessage(UsageOnly), EventMessage(Hello), EventMessage(FragId),
         EventMessage(ToolComplete),
         Frame(None, None, None),
         Frame(Some(<< >>), None, None),
         Frame(None, None, Some("stop")),
         Frame(None, Some(<<Call("call_3", None)>>), None),
         Frame(None, Some(<<Call("call_4", Some(ArgsPartial))>>), None),
         Frame(Some(<<"Hi">>), Some(<<Call("call_5", Some(ArgsValid))>>), None),
         Frame(None, Some(<<Call("call_6", Some(ArgsValid)), Call("call_7", None)>>), None)}

BoundedSeq(S, n) == UNION {[1..k -> S] : k \in 0..n}

-----------------------------------------------------------------------------
(* Items of the stream *)

Pending == [poll |-> "Pending"]
ReadyNone == [poll |-> "Ready", item |-> None]
Ready(item) == [poll |-> "Ready", item |-> Some(item)]
\* the loop goes on to the next transport event
Continue == [poll |-> "Continue"]

Start == [kind |-> "Start"]
Chunk(content) == [kind |-> "Chunk", content |-> content]
ToolCallChunk(tool_call) == [kind |-> "ToolCallChunk", tool_call |-> tool_call]
End(inter_stream_end) == [kind |-> "End", end |-> inter_stream_end]
Err(what) == [kind |-> "Err", error |-> what]

ToolCall(call_id, fn_name, fn_arguments) ==
    [call_id |-> call_id, fn_name |-> fn_name, fn_arguments |-> fn_arguments]

StreamerCapturedDataDefault ==
    [usage |-> None, content |-> None, reasoning_content |-> None, tool_calls |-> None]

StreamerOptions ==
    [capture_usage : BOOLEAN, capture_content : BOOLEAN, capture_tool_calls : BOOLEAN]

AllCaptures == [capture_usage |-> TRUE, capture_content |-> TRUE, capture_tool_calls |-> TRUE]
NoCaptures == [capture_usage |-> FALSE, capture_content |-> FALSE, capture_tool_calls |-> FALSE]

-----------------------------------------------------------------------------
(* poll_next.  `self` is one streamer: [event_source, options, done,       *)
(* captured_data].  Every step returns [self |-> the streamer afterwards,  *)
(* poll |-> what poll_next returns, or Continue].                          *)

Step(self, poll) == [self |-> self, poll |-> poll]

Usage(copilot_usage) ==
    [prompt_tokens |-> Some(AsI32(copilot_usage.prompt_tokens)),
     completion_tokens |-> Some(AsI32(copilot_usage.completion_tokens)),
     total_tokens |-> Some(AsI32(copilot_usage.total_tokens))]

\* data.trim() == "[DONE]"
IsDoneMarker(data) == Trim(data.text) = <<"[DONE]">>

\* the marker taken for a frame with nothing to yield
DoneMarkerEnd_Ignored(self) == Step(self, Continue)

\* the End of the [DONE] marker
DoneMarkerEnd(self) ==
    LET captured_usage ==
            IF self.options.capture_usage THEN self.captured_data.usage ELSE None
        inter_stream_end ==
            [captured_usage |-> captured_usage,
             captured_text_content |-> self.captured_data.content,
             captured_reasoning_content |-> self.captured_data.reasoning_content,
             captured_tool_calls |-> self.captured_data.tool_calls,
             captured_thought_signatures |-> None]
        taken ==
            [usage |-> IF self.options.capture_usage THEN None ELSE self.captured_data.usage,
             content |-> None, reasoning_content |-> None, tool_calls |-> None]
    IN  Step([self EXCEPT !.done = TRUE, !.captured_data = taken],
             Ready(End(inter_stream_end)))

\* the End of a finish_reason
FinishReasonEnd(self) ==
    LET captured_usage ==
            IF self.options.capture_usage THEN self.captured_data.usage ELSE None
        inter_stream_end ==
            [captured_usage |-> captured_usage,
             captured_text_content |-> self.captured_data.content,
             captured_reasoning_content |-> self.captured_data.reasoning_content,
             captured_tool_calls |-> self.captured_data.tool_calls,
             captured_thought_signatures |-> None]
        taken ==
            [usage |-> IF self.options.capture_usage THEN None ELSE self.captured_data.usage,
             content |-> None, reasoning_content |-> None, tool_calls |-> None]
    IN  Step([self EXCEPT !.done = TRUE, !.captured_data = taken],
             Ready(End(inter_stream_end)))

\* a capture that keeps the first usage instead of replacing it
CaptureUsage_KeepsFirst(self, stream_response) ==
    IF self.options.capture_usage /\ stream_response.usage.some
       /\ ~self.captured_data.usage.some
    THEN [self EXCEPT !.captured_data.usage = Some(Usage(stream_response.usage.v))]
    ELSE self

\* usage of the frame, if capture_usage is enabled
CaptureUsage(self, stream_response) ==
    IF self.options.capture_usage /\ stream_response.usage.some
    THEN [self EXCEPT !.captured_data.usage = Some(Usage(stream_response.usage.v))]
    ELSE self

\* a capture that replaces the accumulated content instead of appending to it
CaptureContent_Overwrites(self, content) ==
    IF self.options.capture_content
    THEN [self EXCEPT !.captured_data.content = Some(content)]
    ELSE self

\* a capture that does not look at capture_content
CaptureContent_IgnoresFlag(self, content) ==
    [self EXCEPT !.captured_data.content =
        IF @.some THEN Some(@.v \o content) ELSE Some(content)]

\* push_str on the content accumulator, if capture_content is enabled
CaptureContent(self, content) ==
    IF self.options.capture_content
    THEN [self EXCEPT !.captured_data.content =
              IF @.some THEN Some(@.v \o content) ELSE Some(content)]
    ELSE self

\* push on the tool-call accumulator, if capture_tool_calls is enabled
CaptureToolCall(self, tool_call) ==
    IF self.options.capture_tool_calls
    THEN [self EXCEPT !.captured_data.tool_calls =
              IF @.some THEN Some(Append(@.v, tool_call)) ELSE Some(<<tool_call>>)]
    ELSE self

\* content delta: a non-empty text returns a Chunk
ContentDelta(self, delta) ==
    IF delta.content.some /\ delta.content.v /= << >>
    THEN Step(CaptureContent(self, delta.content.v), Ready(Chunk(delta.content.v)))
    ELSE Step(self, Continue)

\* a fragment is complete when it has a function with a name, and an id
IsCompleteToolCall(delta_tool_call) ==
    /\ delta_tool_call.function.some
    /\ delta_tool_call.function.v.name.some
    /\ delta_tool_call.id.some

\* arguments.and_then(from_str(..).ok()).unwrap_or_default()
FnArguments(function) ==
    IF function.arguments.some /\ JsonFromStr(function.arguments.v).some
    THEN JsonFromStr(function.arguments.v).v
    ELSE JsonDefault

\* tool calls delta: the first complete fragment returns a ToolCallChunk
ToolCallsDelta(self, delta) ==
    IF ~delta.tool_calls.some
    THEN Step(self, Continue)
    ELSE LET tool_calls == delta.tool_calls.v
             complete == {k \in 1..Len(tool_calls) : IsCompleteToolCall(tool_calls[k])}
         IN  IF complete = {}
             THEN Step(self, Continue)
             ELSE LET k == CHOOSE x \in complete : \A y \in complete : x <= y
                      tool_call ==
                          ToolCall(tool_calls[k].id.v, tool_calls[k].function.v.name.v,
                                   FnArguments(tool_calls[k].function.v))
                  IN  Step(CaptureToolCall(self, tool_call), Ready(ToolCallChunk(tool_call)))

\* the first choice: content, then tool calls, then finish_reason
FirstChoice(self, choice) ==
    LET content == ContentDelta(self, choice.delta)
        tools == ToolCallsDelta(self, choice.delta)
    IN  IF content.poll /= Continue THEN content
        ELSE IF tools.poll /= Continue THEN tools
        ELSE IF choice.finish_reason.some THEN FinishReasonEnd(self)
        ELSE Step(self, Continue)

\* a frame that fails to deserialize
DecodeError(self) == Step(self, Ready(Err("parse")))

\* Some(Ok(Event::Message(message)))
OnMessage(self, data) ==
    IF IsDoneMarker(data) THEN DoneMarkerEnd(self)
    ELSE IF ~FromStr(data).some THEN DecodeError(self)
    ELSE LET stream_response == FromStr(data).v
             s1 == CaptureUsage(self, stream_response)
         IN  IF stream_response.choices /= << >>
             THEN FirstChoice(s1, Head(stream_response.choices))
             ELSE Step(s1, Continue)

\* Some(Ok(Event::Open))
OnOpen(self) == Step(self, Ready(Start))

\* Some(Err(e))
OnTransportError(self) == Step(self, Ready(Err("stream")))

\* a closed transport taken for one that is not ready
OnTransportClosed_Pending(self) == Step(self, Pending)
\* None: the transport is closed
OnTransportClosed(self) == Step(self, ReadyNone)

\* a loop that returns Pending after a frame with nothing to yield
PollLoop_StopsAtEmptyFrame(self) ==
    IF self.event_source = << >> THEN OnTransportClosed(self)
    ELSE LET event == Head(self.event_source)
             rest == [self EXCEPT !.event_source = Tail(@)]
         IN  CASE event.ev = "NotReady" -> Step(rest, Pending)
               [] event.ev = "Open" -> OnOpen(rest)
               [] event.ev = "Error" -> OnTransportError(rest)
               [] event.ev = "Message" ->
                    LET r == OnMessage(rest, event.data)
                    IN  IF r.poll = Continue THEN Step(r.self, Pending) ELSE r
\* the while-let loop over the transport
RECURSIVE PollLoop(_)
PollLoop(self) ==
    IF self.event_source = << >> THEN OnTransportClosed(self)
    ELSE LET event == Head(self.event_source)
             rest == [self EXCEPT !.event_source = Tail(@)]
         IN  CASE event.ev = "NotReady" -> Step(rest, Pending)
               [] event.ev = "Open" -> OnOpen(rest)
               [] event.ev = "Error" -> OnTransportError(rest)
               [] event.ev = "Message" ->
                    LET r == OnMessage(rest, event.data)
                    \* continue: the next round starts from the streamer as
                    \* this round left it
                    IN  IF r.poll = Continue
                        THEN CHOOSE result \in {PollLoop(next) : next \in {r.self}} : TRUE
                        ELSE r

\* a poll_next without the done guard
DoneGuard_Missing(self) == FALSE

\* the done guard
DoneGuard(self) == self.done

PollNext(self) ==
    IF DoneGuard(self) THEN Step(self, ReadyNone) ELSE PollLoop(self)

-----------------------------------------------------------------------------
(* The streamers *)

Streamers == DOMAIN done

\* streamers whose done flag is one flag shared by all of them
StreamerOf_SharedDone(i) ==
    [event_source |-> event_source[i], options |-> options[i],
     done |-> \E j \in Streamers : done[j],
     captured_data |-> captured_data[i]]

\* the fields of streamer i
StreamerOf(i) ==
    [event_source |-> event_source[i], options |-> options[i], done |-> done[i],
     captured_data |-> captured_data[i]]

\* CopilotStreamer::new for each streamer of S, over the given transport scripts
New(S, scripts, opts) ==
    /\ event_source \in [S -> scripts]
    /\ options \in [S -> opts]
    /\ done = [i \in S |-> FALSE]
    /\ captured_data = [i \in S |-> StreamerCapturedDataDefault]
    /\ dropped = [i \in S |-> FALSE]
    /\ delivered = [i \in S |-> << >>]
    /\ out = [i \in S |-> << >>]
    /\ last = [i \in S |-> Pending]

\* no adapter operation is being called
NoCall ==
    /\ call = None
    /\ trace = << >>
    /\ ret = None

Init == New({1}, BoundedSeq(LifecycleEvents, MaxFrames), StreamerOptions) /\ NoCall

InitFrames ==
    New({1}, BoundedSeq(FrameEvents, MaxFragments), {AllCaptures, NoCaptures}) /\ NoCall

InitTwo == New({1, 2}, BoundedSeq(TwoStreamEvents, MaxFramesTwo), {AllCaptures}) /\ NoCall

\* a whole stream: Open, a run of well-formed frames (between which the
\* transport may not be ready), then the [DONE] marker
InitRun ==
    LET RunEvents == {NotReady} \cup
                     {EventMessage(d) : d \in {Heartbeat, Hello, WorldFinish, ToolComplete}}
        Runs == {<<EventOpen>> \o run \o <<EventMessage(DoneData)>> :
                    run \in BoundedSeq(RunEvents, MaxRun)}
    IN  New({1}, Runs, {AllCaptures, NoCaptures}) /\ NoCall

InitItems ==
    New({1}, BoundedSeq(ItemEvents, MaxItems), {AllCaptures, NoCaptures}) /\ NoCall

\* the caller polls streamer i
Poll(i) ==
    /\ ~dropped[i]
    /\ LET r == PollNext(StreamerOf(i))
           read == Len(event_source[i]) - Len(r.self.event_source)
       IN  /\ event_source' = [event_source EXCEPT ![i] = r.self.event_source]
           /\ done' = [done EXCEPT ![i] = r.self.done]
           /\ captured_data' = [captured_data EXCEPT ![i] = r.self.captured_data]
           /\ delivered' = [delivered EXCEPT ![i] = @ \o SubSeq(event_source[i], 1, read)]
           /\ out' = [out EXCEPT ![i] = IF r.poll.poll = "Ready" /\ r.poll.item.some
                                        THEN Append(@, r.poll.item.v) ELSE @]
           /\ last' = [last EXCEPT ![i] = r.poll]
    /\ UNCHANGED <<options, dropped, call, trace, ret>>

\* the caller drops streamer i: the transport and the buffers are released
Drop(i) ==
    /\ ~dropped[i]
    /\ dropped' = [dropped EXCEPT ![i] = TRUE]
    /\ event_source' = [event_source EXCEPT ![i] = << >>]
    /\ captured_data' = [captured_data EXCEPT ![i] = StreamerCapturedDataDefault]
    /\ UNCHANGED <<options, done, delivered, out, last, call, trace, ret>>

PollSome == \E i \in Streamers : Poll(i)

DropSome == \E i \in Streamers : Drop(i)

Next == PollSome \/ DropSome

Spec == Init /\ [][Next]_vars

SpecFrames == InitFrames /\ [][Next]_vars

SpecTwo == InitTwo /\ [][Next]_vars

SpecItems == InitItems /\ [][Next]_vars

\* a caller that keeps polling: every poll that can change something is
\* eventually made
SpecRun == InitRun /\ [][Next]_vars /\ WF_vars(PollSome)

-----------------------------------------------------------------------------
(* Reading the histories *)

\* the positions of the items of one kind in a sequence of items
Positions(items, kind) == {k \in 1..Len(items) : items[k].kind = kind}

EndEmitted(i) == Positions(out[i], "End") /= {}

IsEvent(item) == item.kind /= "Err"

\* the InterStreamEvents among the items yielded: the items that are no error
Events(items) == SelectSeq(items, IsEvent)

\* the first choice of a read event, if the event is a frame that deserializes
\* and has a choice
FirstChoiceOf(event) ==
    IF event.ev = "Message" /\ ~IsDoneMarker(event.data) /\ event.data.value.some
       /\ event.data.value.v.choices /= << >>
    THEN Some(Head(event.data.value.v.choices))
    ELSE None

-----------------------------------------------------------------------------
(* C1 *)

\* C1: in every sequence of events a streamer has yielded, Start is the first
\* event and occurs exactly once, whatever the transport delivered.
C1_StartOnceAndFirst ==
    \A i \in Streamers :
        Events(out[i]) /= << >> =>
            /\ Events(out[i])[1] = Start
            /\ Cardinality(Positions(out[i], "Start")) = 1

-----------------------------------------------------------------------------
(* C2 *)

\* C2: once End has been yielded, every later poll returns end-of-stream, yields
\* no item and does not read the transport; at most one End is ever yielded.
C2_NothingAfterEnd ==
    /\ [][\A i \in Streamers :
            (EndEmitted(i) /\ Poll(i)) =>
                /\ last'[i] = ReadyNone
                /\ out'[i] = out[i]
                /\ event_source'[i] = event_source[i]
                /\ delivered'[i] = delivered[i]]_vars
    /\ [](\A i \in Streamers : Cardinality(Positions(out[i], "End")) <= 1)

\* an End for a finish_reason, a later poll that returned end-of-stream, and
\* the [DONE] frame still unread in the transport
C2_Witness ==
    /\ EndEmitted(1)
    /\ ~dropped[1]
    /\ last[1] = ReadyNone
    /\ delivered[1][Len(delivered[1])] = EventMessage(FinishUsage)
    /\ event_source[1] /= << >>
    /\ Head(event_source[1]) = EventMessage(DoneData)

-----------------------------------------------------------------------------
(* C3 *)

\* C3: a frame that fails to deserialize yields a decode error and terminates
\* the stream: the decode error is the last item yielded and the malformed frame
\* is the last transport event read.
C3_DecodeErrorTerminates ==
    \A i \in Streamers :
        /\ \A k \in 1..Len(out[i]) : out[i][k] = Err("parse") => k = Len(out[i])
        /\ \A k \in 1..Len(delivered[i]) :
              (delivered[i][k].ev = "Message" /\ ~IsDoneMarker(delivered[i][k].data)
               /\ ~FromStr(delivered[i][k].data).some) => k = Len(delivered[i])

-----------------------------------------------------------------------------
(* C4 *)

\* C4: whenever a frame that was read and deserialized carries a finish_reason
\* in its first choice, the streamer is Done and has yielded End.
C4_FinishReasonEnds ==
    \A i \in Streamers :
        (\E k \in 1..Len(delivered[i]) :
            /\ FirstChoiceOf(delivered[i][k]).some
            /\ FirstChoiceOf(delivered[i][k]).v.finish_reason.some)
        => (done[i] /\ EndEmitted(i))

-----------------------------------------------------------------------------
(* C5 *)

\* C5: a transport error, or the transport closing before Done, terminates the
\* stream with an error item: a poll returns end-of-stream without an item only
\* when Done, and a transport error is the last transport event read.
C5_TransportFailureTerminates ==
    \A i \in Streamers :
        /\ (last[i] = ReadyNone /\ ~dropped[i]) => done[i]
        /\ \A k \in 1..Len(delivered[i]) :
              delivered[i][k] = EventError => k = Len(delivered[i])

-----------------------------------------------------------------------------
(* C6 *)

RECURSIVE ConcatChunks(_)
\* the texts of the Chunk items of a sequence of items, concatenated in order
ConcatChunks(items) ==
    IF items = << >> THEN << >>
    ELSE (IF Head(items).kind = "Chunk" THEN Head(items).content ELSE << >>)
         \o ConcatChunks(Tail(items))

\* C6: with capture_content enabled, the captured_text_content of an End is the
\* concatenation, in order, of the texts of the Chunks yielded before it, and is
\* None only if no Chunk was yielded before it.
C6_CapturedTextIsConcatenation ==
    \A i \in Streamers :
        options[i].capture_content =>
            \A k \in Positions(out[i], "End") :
                LET before == SubSeq(out[i], 1, k - 1)
                IN  out[i][k].end.captured_text_content =
                        IF Positions(before, "Chunk") = {} THEN None
                        ELSE Some(ConcatChunks(before))

\* Chunk("Hello"), Chunk(" world"), then End with Some("Hello world")
C6_Witness ==
    /\ options[1].capture_content
    /\ Len(out[1]) = 3
    /\ out[1][1] = Chunk(<<"Hello">>)
    /\ out[1][2] = Chunk(<<" world">>)
    /\ out[1][3].kind = "End"
    /\ out[1][3].end.captured_text_content = Some(<<"Hello", " world">>)

-----------------------------------------------------------------------------
(* C7 *)

\* the non-empty text delta of a read frame, if it has one
TextOf(event) ==
    IF FirstChoiceOf(event).some /\ FirstChoiceOf(event).v.delta.content.some
       /\ FirstChoiceOf(event).v.delta.content.v /= << >>
    THEN Some(FirstChoiceOf(event).v.delta.content.v)
    ELSE None

HasText(event) == TextOf(event).some

\* whether a read frame has a tool-call fragment with an id and a function name
HasCompleteToolCall(event) ==
    /\ FirstChoiceOf(event).some
    /\ FirstChoiceOf(event).v.delta.tool_calls.some
    /\ \E k \in 1..Len(FirstChoiceOf(event).v.delta.tool_calls.v) :
          LET f == FirstChoiceOf(event).v.delta.tool_calls.v[k]
          IN  f.id.some /\ f.function.some /\ f.function.v.name.some

IsChunk(item) == item.kind = "Chunk"

\* C7: every captured field of an End is None unless its capture flag is
\* enabled, and the Chunk and ToolCallChunk events do not depend on the flags:
\* each text frame read has its Chunk, each complete tool call its ToolCallChunk.
C7_CapturedOnlyWithFlag ==
    \A i \in Streamers :
        /\ \A k \in Positions(out[i], "End") :
              LET e == out[i][k].end
              IN  /\ ~options[i].capture_usage => e.captured_usage = None
                  /\ ~options[i].capture_content => e.captured_text_content = None
                  /\ e.captured_reasoning_content = None
                  /\ ~options[i].capture_tool_calls => e.captured_tool_calls = None
        /\ LET chunks == SelectSeq(out[i], IsChunk)
               texts == SelectSeq(delivered[i], HasText)
           IN  /\ Len(chunks) = Len(texts)
               /\ \A k \in 1..Len(chunks) : chunks[k].content = TextOf(texts[k]).v
        /\ Cardinality(Positions(out[i], "ToolCallChunk")) =
              Cardinality({k \in 1..Len(delivered[i]) :
                              HasCompleteToolCall(delivered[i][k]) /\ ~HasText(delivered[i][k])})

\* capture_content and capture_tool_calls disabled: a Chunk and a ToolCallChunk
\* were yielded, and the End carries neither
C7_Witness ==
    /\ ~options[1].capture_content
    /\ ~options[1].capture_tool_calls
    /\ Positions(out[1], "Chunk") /= {}
    /\ Positions(out[1], "ToolCallChunk") /= {}
    /\ \E k \in Positions(out[1], "End") :
          /\ out[1][k].end.captured_text_content = None
          /\ out[1][k].end.captured_tool_calls = None

-----------------------------------------------------------------------------
(* C8 *)

\* the ToolCall the fragments FragId, FragName, FragArgs describe
ReconstructedToolCall == ToolCall("call_1", "search", [object |-> <<"q:x">>])

\* the fragments of one call were read in separate frames: id, name, arguments
FragmentsRead(i) ==
    \E a, b, c \in 1..Len(delivered[i]) :
        /\ a < b /\ b < c
        /\ delivered[i][a] = EventMessage(FragId)
        /\ delivered[i][b] = EventMessage(FragName)
        /\ delivered[i][c] = EventMessage(FragArgs)

\* C8: fragments of one call that arrive in separate frames are reconstructed
\* into one ToolCall, yielded as a ToolCallChunk and, with capture_tool_calls
\* enabled, present once in the End's captured_tool_calls.
C8_FragmentsReconstructed ==
    \A i \in Streamers :
        FragmentsRead(i) =>
            /\ \E k \in Positions(out[i], "ToolCallChunk") :
                  out[i][k].tool_call = ReconstructedToolCall
            /\ \A k \in Positions(out[i], "End") :
                  options[i].capture_tool_calls =>
                      /\ out[i][k].end.captured_tool_calls.some
                      /\ Cardinality({n \in 1..Len(out[i][k].end.captured_tool_calls.v) :
                            out[i][k].end.captured_tool_calls.v[n] = ReconstructedToolCall}) = 1

-----------------------------------------------------------------------------
(* C9 *)

\* whether a read event is a frame that deserialized and carries a usage object
HasUsage(event) ==
    /\ event.ev = "Message"
    /\ ~IsDoneMarker(event.data)
    /\ event.data.value.some
    /\ event.data.value.v.usage.some

\* the usage of the last usage-bearing frame read, its token counts as i32
LastUsage(events) ==
    LET with == SelectSeq(events, HasUsage)
    IN  IF with = << >> THEN None
        ELSE LET u == with[Len(with)].data.value.v.usage.v
             IN  Some([prompt_tokens |-> Some(AsI32(u.prompt_tokens)),
                       completion_tokens |-> Some(AsI32(u.completion_tokens)),
                       total_tokens |-> Some(AsI32(u.total_tokens))])

\* the captured_usage of the End streamer i yielded
EndUsage(i) ==
    LET k == CHOOSE k \in Positions(out[i], "End") : TRUE
    IN  out[i][k].end.captured_usage

\* C9 as stated: the accumulated usage is that of the last usage-bearing frame
\* read, whatever the flags; with capture_usage the End carries it.
C9_UsageAlwaysReplaced ==
    \A i \in Streamers :
        ~dropped[i] =>
            IF EndEmitted(i)
            THEN options[i].capture_usage => EndUsage(i) = LastUsage(delivered[i])
            ELSE captured_data[i].usage = LastUsage(delivered[i])

\* C9 (amended): with capture_usage enabled, the accumulated usage is that of
\* the last usage-bearing frame read, whatever else the frame carries, and the
\* End carries the usage of the last usage-bearing frame read up to and
\* including the frame that ends the stream.
C9_UsageReplacedWhenCapturing ==
    \A i \in Streamers :
        (~dropped[i] /\ options[i].capture_usage) =>
            IF EndEmitted(i)
            THEN EndUsage(i) = LastUsage(delivered[i])
            ELSE captured_data[i].usage = LastUsage(delivered[i])

\* two usage-bearing frames were read, and the End carries the usage of the
\* second one
C9_Witness ==
    /\ options[1].capture_usage
    /\ delivered[1] /= << >>
    /\ delivered[1][1] = EventMessage(UsageOnly)
    /\ delivered[1][Len(delivered[1])] = EventMessage(FinishUsage)
    /\ EndEmitted(1)
    /\ EndUsage(1) = Some([prompt_tokens |-> Some(5), completion_tokens |-> Some(6),
                           total_tokens |-> Some(11)])

-----------------------------------------------------------------------------
(* C10 *)

RECURSIVE RunToEnd(_, _)
\* the items a streamer yields when it alone is polled until end-of-stream
RunToEnd(self, items) ==
    LET r == PollNext(self)
    IN  IF r.poll = ReadyNone THEN items
        ELSE RunToEnd(r.self,
                      IF r.poll.poll = "Ready" THEN Append(items, r.poll.item.v) ELSE items)

\* the items of a streamer run alone over a transport script
RunAlone(script, opts) ==
    RunToEnd([event_source |-> script, options |-> opts, done |-> FALSE,
              captured_data |-> StreamerCapturedDataDefault], << >>)

IsPrefix(s, t) == Len(s) <= Len(t) /\ SubSeq(t, 1, Len(s)) = s

\* C10: whatever happens to the other streamer, the items a streamer has
\* yielded are those it yields when run alone over the same transport events: a
\* prefix of them while it is being polled, all of them once it reported
\* end-of-stream.
C10_StreamsIndependent ==
    \A i \in Streamers :
        /\ out[i] = RunAlone(delivered[i], options[i])
        /\ ~dropped[i] =>
              LET alone == RunAlone(delivered[i] \o event_source[i], options[i])
              IN  /\ IsPrefix(out[i], alone)
                  /\ last[i] = ReadyNone => out[i] = alone

\* streamer 1 yielded a decode error and was dropped, and streamer 2 went on
\* to its End
C10_Witness ==
    /\ \E k \in 1..Len(out[1]) : out[1][k] = Err("parse")
    /\ dropped[1]
    /\ Positions(out[2], "Chunk") /= {}
    /\ EndEmitted(2)
    /\ last[2] = ReadyNone

-----------------------------------------------------------------------------
(* Adapters.  A call of an adapter builds a request, parses a response,    *)
(* lists the models or resolves a capability; these operations keep no     *)
(* state between calls.  Model names, urls and keys are strings.           *)

Ok(x) == [kind |-> "Ok", v |-> x]

\* str::starts_with
starts_with(s, pat) == Len(pat) <= Len(s) /\ SubSeq(s, 1, Len(pat)) = pat

\* str::find: the first place where pat occurs in s
find(s, pat) ==
    LET at == {i \in 1..(Len(s) - Len(pat) + 1) : SubSeq(s, i, i + Len(pat) - 1) = pat}
    IN  IF at = {} THEN None ELSE Some(CHOOSE i \in at : \A j \in at : i <= j)

\* str::contains
contains(s, pat) == find(s, pat).some

RECURSIVE Flatten(_)
\* the concatenation of a sequence of sequences (Vec::push in a loop)
Flatten(seqs) == IF seqs = << >> THEN << >> ELSE Head(seqs) \o Flatten(Tail(seqs))

RECURSIVE Join(_, _)
\* [String]::join
Join(strs, sep) ==
    IF Len(strs) = 0 THEN ""
    ELSE IF Len(strs) = 1 THEN strs[1]
    ELSE strs[1] \o sep \o Join(Tail(strs), sep)

ModelIden(adapter_kind, model_name) == [adapter_kind |-> adapter_kind, model_name |-> model_name]

ServiceTarget(model, auth, endpoint) == [model |-> model, auth |-> auth, endpoint |-> endpoint]

\* a split that leaves the namespace in the name
as_model_name_and_namespace_KeepsPrefix(model_name) ==
    LET at == find(model_name, "::")
    IN  [name |-> model_name,
         namespace |-> IF at.some THEN Some(SubSeq(model_name, 1, at.v - 1)) ELSE None]
\* ModelName::as_model_name_and_namespace: "namespace::name", split at the
\* first "::"
as_model_name_and_namespace(model_name) ==
    LET at == find(model_name, "::")
    IN  IF at.some
        THEN [name |-> SubSeq(model_name, at.v + 2, Len(model_name)),
              namespace |-> Some(SubSeq(model_name, 1, at.v - 1))]
        ELSE [name |-> model_name, namespace |-> None]

\* get_api_key: the key of a resolved credential, an error when there is none
get_api_key(auth, model) ==
    IF auth.some THEN Ok(auth.v)
    ELSE Err([error |-> "ApiKeyEnvNotFound", adapter_kind |-> model.adapter_kind])

AdapterNotSupported(adapter_kind, feature) ==
    Err([error |-> "AdapterNotSupported", adapter_kind |-> adapter_kind, feature |-> feature])

ServiceType == {"Chat", "ChatStream", "Embed", "Models"}

\* Url::join: the suffix replaces whatever follows the last "/" of the base
UrlJoin(base_url, suffix) ==
    LET slashes == {i \in 1..Len(base_url) : SubSeq(base_url, i, i) = "/"}
        last_slash == CHOOSE i \in slashes : \A j \in slashes : j <= i
    IN  SubSeq(base_url, 1, last_slash) \o suffix

\* OpenAIAdapter::util_get_service_url (the endpoints carry no query)
util_get_service_url(model, service_type, default_endpoint) ==
    LET suffix == CASE service_type \in {"Chat", "ChatStream"} -> "chat/completions"
                    [] service_type = "Embed" -> "embeddings"
                    [] service_type = "Models" -> "models"
    IN  UrlJoin(default_endpoint, suffix)

\* ZaiAdapter::default_endpoint
Zai_default_endpoint == "https://api.z.ai/api/paas/v4/"

\* the coding endpoint for every namespaced model
ZaiModelEndpoint_AnyNamespace(model) ==
    IF as_model_name_and_namespace(model.model_name).namespace.some
    THEN "https://api.z.ai/api/coding/paas/v4/"
    ELSE Zai_default_endpoint
\* ZaiModelEndpoint::from_model: the namespace "zai" selects the coding endpoint
ZaiModelEndpoint_from_model(model) ==
    LET namespace == as_model_name_and_namespace(model.model_name).namespace
    IN  IF namespace = Some("zai") THEN "https://api.z.ai/api/coding/paas/v4/"
        ELSE Zai_default_endpoint

\* ZaiAdapter::get_service_url
Zai_get_service_url(model, service_type, endpoint) ==
    CASE service_type \in {"Chat", "ChatStream"} -> Ok(endpoint \o "chat/completions")
      [] service_type = "Embed" -> Ok(endpoint \o "embeddings")
      [] service_type = "Models" -> Ok(endpoint \o "models")

\* an embeddings url instead of the error
Copilot_get_service_url_EmbedUrl(model, service_type, endpoint) ==
    CASE service_type \in {"Chat", "ChatStream"} -> Ok(endpoint \o "/chat/completions")
      [] service_type = "Embed" -> Ok(endpoint \o "/embeddings")
      [] service_type = "Models" -> Ok(endpoint \o "/models")
\* CopilotAdapter::get_service_url
Copilot_get_service_url(model, service_type, endpoint) ==
    CASE service_type \in {"Chat", "ChatStream"} -> Ok(endpoint \o "/chat/completions")
      [] service_type = "Embed" -> AdapterNotSupported("Copilot", "embed")
      [] service_type = "Models" -> Ok(endpoint \o "/models")

\* AdapterDispatcher::get_service_url: the adapter of the model's kind answers
get_service_url(model, service_type, endpoint) ==
    CASE model.adapter_kind = "Zai" -> Zai_get_service_url(model, service_type, endpoint)
      [] model.adapter_kind = "Copilot" -> Copilot_get_service_url(model, service_type, endpoint)
      [] OTHER -> Ok(util_get_service_url(model, service_type, endpoint))

\* serde_json::Value::to_string
JsonToString(value) ==
    IF value = JsonDefault THEN <<"null">> ELSE <<"{">> \o value.object \o <<"}">>

ToolResponse(call_id, content) == [call_id |-> call_id, content |-> content]

ChatMessage(role, content) == [role |-> role, content |-> content]

ChatRequest(system, messages) == [system |-> system, messages |-> messages, tools |-> None]

\* OpenAIAdapter::into_openai_request_parts.  The content of a message is one
\* of MessageContent::Text, Parts, ToolCalls, ToolResponses.
into_openai_request_parts(model_iden, chat_req) ==
    LET part_json(part) ==
            IF part.part = "Text" THEN [type |-> "text", text |-> part.text]
            ELSE [type |-> "image_url",
                  image_url |-> [url |-> IF part.source = "Url" THEN part.content
                                         ELSE "data:" \o part.content_type \o ";base64,"
                                              \o part.content]]
        tool_call_json(tool_call) ==
            [type |-> "function", id |-> tool_call.call_id,
             function |-> [name |-> tool_call.fn_name,
                           arguments |-> JsonToString(tool_call.fn_arguments)]]
        of_msg(msg) ==
            LET content == msg.content
            IN  CASE msg.role = "System" ->
                       IF content.variant = "Text"
                       THEN <<[role |-> "system", content |-> content.text]>>
                       ELSE << >>
                  [] msg.role = "User" ->
                       CASE content.variant = "Text" ->
                              <<[role |-> "user", content |-> content.text]>>
                         [] content.variant = "Parts" ->
                              <<[role |-> "user",
                                 content |-> [i \in DOMAIN content.parts |->
                                                 part_json(content.parts[i])]]>>
                         [] OTHER -> << >>
                  [] msg.role = "Assistant" ->
                       CASE content.variant = "Text" ->
                              <<[role |-> "assistant", content |-> content.text]>>
                         [] content.variant = "ToolCalls" ->
                              <<[role |-> "assistant",
                                 tool_calls |-> [i \in DOMAIN content.tool_calls |->
                                                    tool_call_json(content.tool_calls[i])],
                                 content |-> ""]>>
                         [] OTHER -> << >>
                  [] msg.role = "Tool" ->
                       IF content.variant = "ToolResponses"
                       THEN [i \in DOMAIN content.tool_responses |->
                                [role |-> "tool",
                                 content |-> content.tool_responses[i].content,
                                 tool_call_id |-> content.tool_responses[i].call_id]]
                       ELSE << >>
        system == IF chat_req.system.some
                  THEN <<[role |-> "system", content |-> chat_req.system.v]>>
                  ELSE << >>
        tool_json(tool) ==
            [type |-> "function",
             function |-> [name |-> tool.name, description |-> tool.description,
                           parameters |-> tool.schema, strict |-> FALSE]]
    IN  Ok([messages |-> system \o Flatten([i \in DOMAIN chat_req.messages |->
                                                of_msg(chat_req.messages[i])]),
            tools |-> IF chat_req.tools.some
                      THEN Some([i \in DOMAIN chat_req.tools.v |-> tool_json(chat_req.tools.v[i])])
                      ELSE None])

\* OpenAIAdapter::util_to_web_request_data, with no option set and a model name
\* that carries no reasoning-effort suffix
util_to_web_request_data(target, service_type, chat_req) ==
    LET model == target.model
        model_name == as_model_name_and_namespace(model.model_name).name
        api_key == get_api_key(target.auth, model)
        url == get_service_url(model, service_type, target.endpoint)
        parts == into_openai_request_parts(model, chat_req)
    IN  IF api_key.kind = "Err" THEN api_key
        ELSE IF url.kind = "Err" THEN url
        ELSE IF parts.kind = "Err" THEN parts
        ELSE Ok([url |-> url.v,
                 headers |-> <<<<"Authorization", "Bearer " \o api_key.v>>>>,
                 payload |-> IF parts.v.tools.some
                             THEN [model |-> model_name, messages |-> parts.v.messages,
                                   stream |-> service_type = "ChatStream",
                                   tools |-> parts.v.tools.v]
                             ELSE [model |-> model_name, messages |-> parts.v.messages,
                                   stream |-> service_type = "ChatStream"]])

\* ZaiAdapter::to_web_request_data
Zai_to_web_request_data(target, service_type, chat_req) ==
    LET zai_info == ZaiModelEndpoint_from_model(target.model)
    IN  util_to_web_request_data([target EXCEPT !.endpoint = zai_info], service_type, chat_req)

\* CopilotAdapter::to_copilot_request.  The content of a message is a list of
\* ContentPart: Text, Binary, ToolCall, ToolResponse.
to_copilot_request(chat_req, stream, model_name) ==
    LET CopilotMessage(role, content, tool_calls, tool_call_id) ==
            [role |-> role, content |-> content, tool_calls |-> tool_calls,
             tool_call_id |-> tool_call_id]
        IsText(part) == part.part = "Text"
        IsImage(part) == part.part = "Binary" /\ part.is_image
        IsToolCall(part) == part.part = "ToolCall"
        IsToolResponse(part) == part.part = "ToolResponse"
        of_msg(msg) ==
            LET role == CASE msg.role = "User" -> "user"
                          [] msg.role = "Assistant" -> "assistant"
                          [] msg.role = "System" -> "system"
                          [] msg.role = "Tool" -> "tool"
                parts == msg.content
                texts == SelectSeq(parts, IsText)
                images == SelectSeq(parts, IsImage)
                calls == SelectSeq(parts, IsToolCall)
                responses == SelectSeq(parts, IsToolResponse)
                text_parts == [i \in DOMAIN texts |-> texts[i].text]
                image_parts == [i \in DOMAIN images |->
                                   [type |-> "image_url", image_url |-> [url |-> images[i].url]]]
                tool_calls_vec ==
                    [i \in DOMAIN calls |->
                        [id |-> calls[i].tool_call.call_id, type |-> "function",
                         function |-> [name |-> calls[i].tool_call.fn_name,
                                       arguments |->
                                           JsonToString(calls[i].tool_call.fn_arguments)]]]
                tool_responses_vec == [i \in DOMAIN responses |-> responses[i].tool_response]
            IN  IF tool_responses_vec /= << >>
                THEN [i \in DOMAIN tool_responses_vec |->
                         CopilotMessage("tool", Some(tool_responses_vec[i].content), None,
                                        Some(tool_responses_vec[i].call_id))]
                ELSE IF tool_calls_vec /= << >>
                THEN <<CopilotMessage(role,
                                      IF text_parts /= << >> THEN Some(Join(text_parts, "\n"))
                                      ELSE None,
                                      Some(tool_calls_vec), None)>>
                ELSE IF image_parts /= << >>
                THEN <<CopilotMessage(role,
                                      Some([i \in DOMAIN text_parts |->
                                               [type |-> "text", text |-> text_parts[i]]]
                                           \o image_parts),
                                      None, None)>>
                ELSE IF text_parts /= << >>
                THEN <<CopilotMessage(role, Some(Join(text_parts, "\n")), None, None)>>
                ELSE << >>
        system == IF chat_req.system.some
                  THEN <<CopilotMessage("system", Some(chat_req.system.v), None, None)>>
                  ELSE << >>
    IN  Ok([model |-> model_name,
            messages |-> system \o Flatten([i \in DOMAIN chat_req.messages |->
                                               of_msg(chat_req.messages[i])]),
            tools |-> IF chat_req.tools.some
                      THEN Some([i \in DOMAIN chat_req.tools.v |->
                                    [type |-> "function",
                                     function |-> [name |-> chat_req.tools.v[i].name,
                                                   description |-> chat_req.tools.v[i].description,
                                                   parameters |-> chat_req.tools.v[i].schema]]])
                      ELSE None,
            temperature |-> None, top_p |-> None, max_tokens |-> None,
            stream |-> Some(stream), n |-> Some(1), intent |-> Some(TRUE)])

\* CopilotAdapter::to_web_request_data, with no option set
Copilot_to_web_request_data(target, service_type, chat_req) ==
    LET model == target.model
        model_name == as_model_name_and_namespace(model.model_name).name
        url == Copilot_get_service_url(model, service_type, target.endpoint)
        has_vision == \E i \in DOMAIN chat_req.messages :
                          \E j \in DOMAIN chat_req.messages[i].content :
                              LET part == chat_req.messages[i].content[j]
                              IN  part.part = "Binary" /\ part.is_image
        copilot_req == to_copilot_request(chat_req, service_type = "ChatStream", model_name)
        api_key == get_api_key(target.auth, model)
    IN  IF url.kind = "Err" THEN url
        ELSE IF copilot_req.kind = "Err" THEN copilot_req
        ELSE IF api_key.kind = "Err" THEN api_key
        ELSE Ok([url |-> url.v,
                 headers |-> <<<<"Authorization", "Bearer " \o api_key.v>>,
                               <<"Content-Type", "application/json">>,
                               <<"Copilot-Integration-Id", "vscode-chat">>,
                               <<"Editor-Version", "vscode/1.103.2">>,
                               <<"X-Initiator", "user">>>>
                             \o (IF has_vision THEN <<<<"Copilot-Vision-Request", "true">>>>
                                 ELSE << >>),
                 payload |-> copilot_req.v])

\* OpenAIAdapter::to_embed_request_data: the request goes to the embeddings
\* url of the target's endpoint
OpenAI_to_embed_request_data(service_target) ==
    LET model == service_target.model
        api_key == get_api_key(service_target.auth, model)
        url == get_service_url(model, "Embed", service_target.endpoint)
    IN  IF api_key.kind = "Err" THEN api_key
        ELSE IF url.kind = "Err" THEN url
        ELSE Ok([url |-> url.v,
                 headers |-> <<<<"Authorization", "Bearer " \o api_key.v>>>>,
                 payload |-> [model |-> as_model_name_and_namespace(model.model_name).name]])

\* ZaiAdapter::to_embed_request_data
Zai_to_embed_request_data(service_target) ==
    LET zai_info == ZaiModelEndpoint_from_model(service_target.model)
    IN  OpenAI_to_embed_request_data([service_target EXCEPT !.endpoint = zai_info])

\* CopilotAdapter::to_embed_request_data
Copilot_to_embed_request_data(service_target) == AdapterNotSupported("Copilot", "embed")

\* CopilotAdapter::to_embed_response
Copilot_to_embed_response(model_iden) == AdapterNotSupported("Copilot", "embed")

\* GroqAdapter::to_embed_request_data
Groq_to_embed_request_data(service_target) == AdapterNotSupported("Groq", "embeddings")

\* GroqAdapter::to_embed_response
Groq_to_embed_response(model_iden) == AdapterNotSupported("Groq", "embeddings")

\* AdapterDispatcher::to_web_request_data and to_embed_request_data: the
\* adapter of the target's kind builds the request
build_request(target, service_type, chat_req) ==
    LET adapter_kind == target.model.adapter_kind
    IN  IF service_type = "Embed"
        THEN CASE adapter_kind = "Zai" -> Zai_to_embed_request_data(target)
               [] adapter_kind = "Copilot" -> Copilot_to_embed_request_data(target)
               [] adapter_kind = "Groq" -> Groq_to_embed_request_data(target)
               [] OTHER -> OpenAI_to_embed_request_data(target)
        ELSE CASE adapter_kind = "Zai" -> Zai_to_web_request_data(target, service_type, chat_req)
               [] adapter_kind = "Copilot" ->
                    Copilot_to_web_request_data(target, service_type, chat_req)
               [] OTHER -> util_to_web_request_data(target, service_type, chat_req)

\* Adapter::default_endpoint of each adapter
default_endpoint(adapter_kind) ==
    CASE adapter_kind = "OpenAI" -> "https://api.openai.com/v1/"
      [] adapter_kind = "Copilot" -> "https://api.githubcopilot.com"
      [] adapter_kind = "DeepSeek" -> "https://api.deepseek.com/v1/"
      [] adapter_kind = "Groq" -> "https://api.groq.com/openai/v1/"
      [] adapter_kind = "Ollama" -> "http://localhost:11434/v1/"
      [] adapter_kind = "Xai" -> "https://api.x.ai/v1/"
      [] adapter_kind = "Zai" -> Zai_default_endpoint

-----------------------------------------------------------------------------
(* One chat or embed call of the client: the resolver chain materializes   *)
(* the service target, then the adapter builds the request.                *)

streamer_vars == <<event_source, options, done, captured_data, dropped, delivered, out, last>>

\* no streamer exists
NoStreamers == New({}, {<< >>}, {AllCaptures})

\* a mapper that rewrites nothing
model_mapper_Identity(model_iden) == model_iden
\* the mapper of the mapper example: every "gpt-" model becomes gpt-4o-mini
model_mapper(model_iden) ==
    IF starts_with(model_iden.model_name, "gpt-")
    THEN ModelIden("OpenAI", "gpt-4o-mini")
    ELSE model_iden

\* the models the calls name
ChatModels ==
    {ModelIden("OpenAI", "gpt-4o"), ModelIden("OpenAI", "gpt-4o-mini"),
     ModelIden("OpenAI", "o3-mini"), ModelIden("Zai", "glm-4.6"),
     ModelIden("Zai", "zai::glm-4.6"), ModelIden("Zai", "other::glm-4.6"),
     ModelIden("Copilot", "gpt-4o"), ModelIden("Groq", "llama-3.1-8b-instant"),
     ModelIden("Xai", "grok-3"), ModelIden("DeepSeek", "deepseek::deepseek-chat"),
     ModelIden("Copilot", "copilot::gpt-4o"), ModelIden("OpenAI", "openai::o3-mini")}

\* the client's configuration: with or without the mapper, a credential that
\* resolves or not, the provider's endpoint or an override
ClientConfigs ==
    [model_mapper : BOOLEAN, auth : {Some("sk-test"), None},
     endpoint : {None, Some("http://localhost:8080/v1/")}]

\* Client::exec_chat, exec_chat_stream, embed: the call and its arguments
InitChat ==
    /\ NoStreamers
    /\ call \in {Some([op |-> "exec", model |-> m, service_type |-> t, config |-> c,
                       chat_req |-> ChatRequest(Some("Answer in one sentence"), << >>)]) :
                    m \in ChatModels, t \in {"Chat", "ChatStream", "Embed"},
                    c \in ClientConfigs}
    /\ trace = << >>
    /\ ret = None

\* step 1: the ModelMapper rewrites the model identity
MapModel ==
    /\ call.some /\ call.v.op = "exec" /\ ret = None /\ Len(trace) = 0
    /\ trace' = <<[resolver |-> "ModelMapper", model |-> call.v.model,
                   result |-> IF call.v.config.model_mapper THEN model_mapper(call.v.model)
                              ELSE call.v.model]>>
    /\ UNCHANGED <<streamer_vars, call, ret>>

\* step 2: the AuthResolver gives the credential of the mapped model
ResolveAuth ==
    /\ call.some /\ call.v.op = "exec" /\ ret = None /\ Len(trace) = 1
    /\ trace' = Append(trace, [resolver |-> "AuthResolver", model |-> trace[1].result,
                               result |-> call.v.config.auth])
    /\ UNCHANGED <<streamer_vars, call, ret>>

\* step 3: the EndpointResolver gives the endpoint of the mapped model
ResolveEndpoint ==
    /\ call.some /\ call.v.op = "exec" /\ ret = None /\ Len(trace) = 2
    /\ trace' = Append(trace, [resolver |-> "EndpointResolver", model |-> trace[1].result,
                               result |-> IF call.v.config.endpoint.some
                                          THEN call.v.config.endpoint.v
                                          ELSE default_endpoint(trace[1].result.adapter_kind)])
    /\ UNCHANGED <<streamer_vars, call, ret>>

\* step 4: the adapter builds the request for the resolved target
BuildRequest ==
    /\ call.some /\ call.v.op = "exec" /\ ret = None /\ Len(trace) = 3
    /\ ret' = Some(build_request(ServiceTarget(trace[1].result, trace[2].result,
                                               trace[3].result),
                                 call.v.service_type, call.v.chat_req))
    /\ UNCHANGED <<streamer_vars, call, trace>>

NextChat == MapModel \/ ResolveAuth \/ ResolveEndpoint \/ BuildRequest

SpecChat == InitChat /\ [][NextChat]_vars

\* the call went through the whole chain and the adapter built a request
RequestBuilt == call.some /\ call.v.op = "exec" /\ ret.some /\ ret.v.kind = "Ok"

C12_UrlFromResolvedEndpoint == RequestBuilt => starts_with(ret.v.v.url, trace[3].result)

\* C13: a request of the Zai adapter, chat or embed, goes to the coding
\* endpoint exactly when the model name starts with the namespace "zai::",
\* and to the regular endpoint for every other model name.
C13_ZaiCodingEndpointByNamespace ==
    (RequestBuilt /\ trace[1].result.adapter_kind = "Zai") =>
        LET suffix == IF call.v.service_type = "Embed" THEN "embeddings"
                      ELSE "chat/completions"
        IN  IF starts_with(trace[1].result.model_name, "zai::")
            THEN ret.v.v.url = "https://api.z.ai/api/coding/paas/v4/" \o suffix
            ELSE ret.v.v.url = "https://api.z.ai/api/paas/v4/" \o suffix

C13_Witness ==
    /\ RequestBuilt
    /\ call.v.model = ModelIden("Zai", "zai::glm-4.6")
    /\ call.v.service_type = "Embed"
    /\ ret.v.v.url = "https://api.z.ai/api/coding/paas/v4/embeddings"
    /\ ret.v.v.payload.model = "glm-4.6"

-----------------------------------------------------------------------------
(* The messages of a chat request, translated to the provider's payload.   *)

ChatRoles == {"System", "User", "Assistant", "Tool"}

\* the chat requests given to the Copilot adapter: every message is a list of
\* content parts
CopilotChatRequests ==
    LET parts == {[part |-> "Text", text |-> "hi"],
                  [part |-> "Binary", is_image |-> TRUE, url |-> "https://x/cat.png"],
                  [part |-> "ToolCall",
                   tool_call |-> ToolCall("call_1", "search", [object |-> <<"q:x">>])],
                  [part |-> "ToolResponse", tool_response |-> ToolResponse("call_1", "sunny")]}
        msgs == {ChatMessage(role, content) :
                    role \in ChatRoles, content \in BoundedSeq(parts, MaxParts)}
    IN  {ChatRequest(None, messages) : messages \in BoundedSeq(msgs, MaxMessages)}

\* the chat requests given to the OpenAI adapter: the content of a message is
\* one MessageContent variant
OpenAIChatRequests ==
    LET parts == {[part |-> "Text", text |-> "hi"],
                  [part |-> "Image", source |-> "Url", content |-> "https://x/cat.png",
                   content_type |-> "image/png"]}
        tool_calls == {ToolCall("call_1", "search", [object |-> <<"q:x">>]),
                       ToolCall("call_2", "lookup", JsonDefault)}
        tool_responses == {ToolResponse("call_1", "sunny")}
        contents ==
            {[variant |-> "Text", text |-> "hi"]}
            \cup {[variant |-> "Parts", parts |-> p] :
                     p \in BoundedSeq(parts, MaxParts) \ {<< >>}}
            \cup {[variant |-> "ToolCalls", tool_calls |-> c] :
                     c \in BoundedSeq(tool_calls, MaxParts) \ {<< >>}}
            \cup {[variant |-> "ToolResponses", tool_responses |-> r] :
                     r \in BoundedSeq(tool_responses, MaxParts) \ {<< >>}}
        msgs == {ChatMessage(role, content) : role \in ChatRoles, content \in contents}
    IN  {ChatRequest(None, messages) : messages \in BoundedSeq(msgs, MaxMessages)}

InitMessages ==
    /\ NoStreamers
    /\ call \in {Some([op |-> "to_copilot_request", chat_req |-> c, stream |-> FALSE,
                       model_name |-> "gpt-4o"]) : c \in CopilotChatRequests}
                \cup {Some([op |-> "into_openai_request_parts", chat_req |-> c,
                            model_iden |-> ModelIden("OpenAI", "gpt-4o")]) :
                         c \in OpenAIChatRequests}
    /\ trace = << >>
    /\ ret = None

\* the Copilot adapter translates the request
ToCopilotRequest ==
    /\ call.some /\ call.v.op = "to_copilot_request" /\ ret = None
    /\ ret' = Some(to_copilot_request(call.v.chat_req, call.v.stream, call.v.model_name))
    /\ UNCHANGED <<streamer_vars, call, trace>>

\* the OpenAI adapter translates the request
IntoOpenAIRequestParts ==
    /\ call.some /\ call.v.op = "into_openai_request_parts" /\ ret = None
    /\ ret' = Some(into_openai_request_parts(call.v.model_iden, call.v.chat_req))
    /\ UNCHANGED <<streamer_vars, call, trace>>

NextMessages == ToCopilotRequest \/ IntoOpenAIRequestParts

SpecMessages == InitMessages /\ [][NextMessages]_vars

\* the tool calls and the tool responses of the messages of a request
ToolCallsOf(chat_req) ==
    UNION {LET content == chat_req.messages[i].content
           IN  IF call.v.op = "to_copilot_request"
               THEN {content[j].tool_call : j \in {j \in DOMAIN content :
                                                      content[j].part = "ToolCall"}}
               ELSE IF content.variant = "ToolCalls"
               THEN {content.tool_calls[j] : j \in DOMAIN content.tool_calls}
               ELSE {} : i \in DOMAIN chat_req.messages}

ToolResponsesOf(chat_req) ==
    UNION {LET content == chat_req.messages[i].content
           IN  IF call.v.op = "to_copilot_request"
               THEN {content[j].tool_response : j \in {j \in DOMAIN content :
                                                          content[j].part = "ToolResponse"}}
               ELSE IF content.variant = "ToolResponses"
               THEN {content.tool_responses[j] : j \in DOMAIN content.tool_responses}
               ELSE {} : i \in DOMAIN chat_req.messages}

\* the tool-call ids and the tool responses that the payload messages carry
PayloadToolCallIds(messages) ==
    UNION {LET m == messages[i]
           IN  IF call.v.op = "to_copilot_request"
               THEN IF m.tool_calls.some
                    THEN {m.tool_calls.v[j].id : j \in DOMAIN m.tool_calls.v} ELSE {}
               ELSE IF "tool_calls" \in DOMAIN m
                    THEN {m.tool_calls[j].id : j \in DOMAIN m.tool_calls} ELSE {}
           : i \in DOMAIN messages}

PayloadToolResponses(messages) ==
    UNION {LET m == messages[i]
           IN  IF call.v.op = "to_copilot_request"
               THEN IF m.role = "tool" /\ m.tool_call_id.some
                    THEN {ToolResponse(m.tool_call_id.v, m.content.v)} ELSE {}
               ELSE IF m.role = "tool"
                    THEN {ToolResponse(m.tool_call_id, m.content)} ELSE {}
           : i \in DOMAIN messages}

\* C14: every tool call and every tool response of every message of the chat
\* request, whatever the role of the message and whatever its other parts,
\* is in the messages of the payload that Copilot's to_copilot_request and
\* OpenAI's into_openai_request_parts build.
C14_NoToolPartDropped ==
    (call.some /\ call.v.op \in {"to_copilot_request", "into_openai_request_parts"}
     /\ ret.some /\ ret.v.kind = "Ok") =>
        /\ \A tc \in ToolCallsOf(call.v.chat_req) :
               tc.call_id \in PayloadToolCallIds(ret.v.v.messages)
        /\ ToolResponsesOf(call.v.chat_req) \subseteq PayloadToolResponses(ret.v.v.messages)

-----------------------------------------------------------------------------
(* The service urls and the embed requests and responses of the adapters,  *)
(* asked for directly.                                                     *)

InitService ==
    /\ NoStreamers
    /\ call \in UNION {{Some([op |-> "get_service_url", model |-> m, service_type |-> t,
                               endpoint |-> ep]) :
                            t \in ServiceType,
                            ep \in {default_endpoint(m.adapter_kind),
                                    "http://localhost:8080/v1"}} : m \in ChatModels}
                \cup {Some([op |-> "to_embed_request_data",
                            service_target |-> ServiceTarget(m, a, default_endpoint(m.adapter_kind))]) :
                         m \in ChatModels, a \in {Some("sk-test"), None}}
                \cup {Some([op |-> "to_embed_response", model_iden |-> m]) :
                         m \in {m \in ChatModels : m.adapter_kind \in {"Copilot", "Groq"}}}
    /\ trace = << >>
    /\ ret = None

\* Adapter::get_service_url of the adapter of the model
GetServiceUrl ==
    /\ call.some /\ call.v.op = "get_service_url" /\ ret = None
    /\ ret' = Some(get_service_url(call.v.model, call.v.service_type, call.v.endpoint))
    /\ UNCHANGED <<streamer_vars, call, trace>>

\* Adapter::to_embed_request_data of the adapter of the target
ToEmbedRequestData ==
    /\ call.some /\ call.v.op = "to_embed_request_data" /\ ret = None
    /\ ret' = Some(build_request(call.v.service_target, "Embed", ChatRequest(None, << >>)))
    /\ UNCHANGED <<streamer_vars, call, trace>>

\* Adapter::to_embed_response of the Copilot and the Groq adapter
ToEmbedResponse ==
    /\ call.some /\ call.v.op = "to_embed_response" /\ ret = None
    /\ ret' = Some(IF call.v.model_iden.adapter_kind = "Copilot"
                   THEN Copilot_to_embed_response(call.v.model_iden)
                   ELSE Groq_to_embed_response(call.v.model_iden))
    /\ UNCHANGED <<streamer_vars, call, trace>>

NextService == GetServiceUrl \/ ToEmbedRequestData \/ ToEmbedResponse

SpecService == InitService /\ [][NextService]_vars

\* the kind of the adapter that a direct call addresses
CalledAdapter ==
    CASE call.v.op = "get_service_url" -> call.v.model.adapter_kind
      [] call.v.op = "to_embed_request_data" -> call.v.service_target.model.adapter_kind
      [] call.v.op = "to_embed_response" -> call.v.model_iden.adapter_kind

\* C15: Copilot's service url for Embed, and the embed request and the embed
\* response of Copilot and of Groq, are the error AdapterNotSupported naming
\* the adapter, never a request; Copilot's service url is the base url
\* followed by "/chat/completions" for Chat and ChatStream and by "/models"
\* for Models.
C15_UnsupportedIsDeclaredError ==
    (call.some /\ ret.some
     /\ call.v.op \in {"get_service_url", "to_embed_request_data", "to_embed_response"}) =>
        /\ (call.v.op = "get_service_url" /\ CalledAdapter = "Copilot") =>
               CASE call.v.service_type = "Embed" ->
                      /\ ret.v.kind = "Err"
                      /\ ret.v.error.error = "AdapterNotSupported"
                      /\ ret.v.error.adapter_kind = "Copilot"
                 [] call.v.service_type \in {"Chat", "ChatStream"} ->
                      ret.v = Ok(call.v.endpoint \o "/chat/completions")
                 [] call.v.service_type = "Models" ->
                      ret.v = Ok(call.v.endpoint \o "/models")
        /\ (call.v.op /= "get_service_url" /\ CalledAdapter \in {"Copilot", "Groq"}) =>
               /\ ret.v.kind = "Err"
               /\ ret.v.error.error = "AdapterNotSupported"
               /\ ret.v.error.adapter_kind = CalledAdapter

C15_Witness ==
    /\ call.some /\ ret.some
    /\ call.v.op = "get_service_url"
    /\ call.v.model.adapter_kind = "Copilot"
    /\ call.v.service_type = "Embed"
    /\ ret.v = [kind |-> "Err",
                error |-> [error |-> "AdapterNotSupported", adapter_kind |-> "Copilot",
                           feature |-> "embed"]]

-----------------------------------------------------------------------------
(* Listing the models of a provider.  The transport is an input: the GET   *)
(* fails, or it returns a body whose "data" is missing, is no array, or is *)
(* an array of entries with or without an "id".  A Model is built from     *)
(* its id alone, so a list of Models is written as the list of their ids.  *)

\* the static model names of each adapter
MODELS(kind) ==
    CASE kind = "OpenAI" ->
           <<"gpt-4.1", "gpt-4.1-mini", "gpt-4.1-nano", "o4-mini", "gpt-4o", "gpt-4o-mini",
             "o3-mini">>
      [] kind = "Copilot" ->
           <<"gpt-4o", "gpt-4o-mini", "claude-3.5-sonnet", "o1-mini", "o1-preview">>
      [] kind = "DeepSeek" -> <<"deepseek-chat", "deepseek-reasoner">>
      [] kind = "Xai" ->
           <<"grok-4-0709", "grok-3", "grok-3-mini", "grok-3-fast", "grok-3-mini-fast",
             "grok-2-vision-1212">>
      [] kind = "Groq" ->
           <<"moonshotai/kimi-k2-instruct", "qwen/qwen3-32b", "llama-3.3-70b-versatile",
             "llama-3.1-8b-instant", "gemma2-9b-it", "meta-llama/llama-guard-4-12b",
             "deepseek-r1-distill-llama-70b",
             "meta-llama/llama-4-maverick-17b-128e-instruct",
             "meta-llama/llama-4-scout-17b-16e-instruct",
             "meta-llama/llama-prompt-guard-2-22m", "meta-llama/llama-prompt-guard-2-86m",
             "llama-3.1-405b-reasoning", "llama-3.1-70b-versatile",
             "llama-3.2-90b-vision-preview", "llama-3.2-11b-vision-preview",
             "llama-3.2-3b-preview", "llama-3.2-1b-preview", "mixtral-8x7b-32768",
             "llama3-70b-8192", "llama-guard-3-8b", "gemma-7b-it">>

\* parse_groq_models_response, parse_xai_models_response and DeepSeek's
\* parse_models_response: the ids of the data array that the adapter keeps,
\* an error when data is no array or no id is kept
parse_models_response(kind, body) ==
    LET keeps(model_id) ==
            CASE kind = "Groq" ->
                   ~contains(model_id, "whisper") /\ ~contains(model_id, "embedding")
              [] kind = "Xai" ->
                   ~contains(model_id, "embedding") /\ ~contains(model_id, "image")
              [] kind = "DeepSeek" ->
                   model_id = "deepseek-chat" \/ model_id = "deepseek-reasoner"
        Kept(model_data) == model_data.id.some /\ keeps(model_data.id.v)
    IN  IF ~body.data.some \/ "array" \notin DOMAIN body.data.v
        THEN Err("JsonValueExt")
        ELSE LET kept == SelectSeq(body.data.v.array, Kept)
                 model_ids == [i \in DOMAIN kept |-> kept[i].id.v]
             IN  IF model_ids = << >> THEN Err("InvalidJsonResponseElement")
                 ELSE Ok(model_ids)

\* GroqAdapter::all_models and XaiAdapter::all_models: the static list when
\* the GET fails or its response does not parse
Xai_all_models(kind, target, web_response) ==
    LET api_key == get_api_key(target.auth, ModelIden(kind, "temp"))
        parsed == IF web_response.kind = "Ok"
                  THEN parse_models_response(kind, web_response.v) ELSE web_response
    IN  IF api_key.kind = "Err" THEN api_key
        ELSE IF parsed.kind = "Ok" THEN Ok(parsed.v) ELSE Ok(MODELS(kind))

\* DeepSeekAdapter::all_models: the static list when the response does not
\* parse
DeepSeek_all_models(kind, target, web_response) ==
    LET api_key == get_api_key(target.auth, ModelIden(kind, "temp"))
    IN  IF api_key.kind = "Err" THEN api_key
        ELSE IF web_response.kind = "Err" THEN Err("WebAdapterCall")
        ELSE LET parsed == parse_models_response(kind, web_response.v)
             IN  IF parsed.kind = "Ok" THEN Ok(parsed.v) ELSE Ok(MODELS(kind))

\* OllamaAdapter::all_models: no credential, no static list
Ollama_all_models(adapter_kind, target, web_response) ==
    IF web_response.kind = "Err" THEN Err("WebAdapterCall")
    ELSE LET data == web_response.v.data
         IN  IF ~data.some THEN Err("JsonValueExt")
             ELSE IF "array" \notin DOMAIN data.v THEN Ok(<< >>)
             ELSE IF \E i \in DOMAIN data.v.array : ~data.v.array[i].id.some
             THEN Err("JsonValueExt")
             ELSE Ok([i \in DOMAIN data.v.array |-> data.v.array[i].id.v])

\* OpenAIAdapter::all_models
OpenAI_all_models(kind, target, web_response) ==
    LET api_key == get_api_key(target.auth, ModelIden(kind, "temp"))
    IN  IF api_key.kind = "Err" THEN api_key
        ELSE Ollama_all_models(kind, target, web_response)

\* CopilotAdapter::all_models: the entries that do not parse are skipped
Copilot_all_models(kind, target, web_response) ==
    LET model_iden == ModelIden(kind, "temp")
        url == Copilot_get_service_url(model_iden, "Models", target.endpoint)
        api_token == get_api_key(target.auth, model_iden)
        HasId(model_data) == model_data.id.some
    IN  IF url.kind = "Err" THEN url
        ELSE IF api_token.kind = "Err" THEN api_token
        ELSE IF web_response.kind = "Err" THEN Err("WebAdapterCall")
        ELSE LET data == web_response.v.data
             IN  IF data.some /\ "array" \in DOMAIN data.v
                 THEN LET parsed == SelectSeq(data.v.array, HasId)
                      IN  Ok([i \in DOMAIN parsed |-> parsed[i].id.v])
                 ELSE Ok(<< >>)

\* a call of all_models on one of the adapters that ask the provider for
\* its models; the GET fails with a transport error or returns a body
InitModels ==
    LET ModelData == {[id |-> Some("deepseek-chat")], [id |-> Some("text-embedding-3")],
                      [id |-> None]}
        Data == {None, Some([string |-> "unavailable"])}
                \cup {Some([array |-> a]) :
                         a \in UNION {[1..n -> ModelData] : n \in 0..MaxModels}}
        ModelsResponses == {Err("WebAdapterCall")} \cup {Ok([data |-> d]) : d \in Data}
    IN  /\ NoStreamers
        /\ call \in {Some([op |-> "all_models", kind |-> k,
                           target |-> ServiceTarget(ModelIden(k, "temp"), a,
                                                    default_endpoint(k)),
                           web_response |-> r]) :
                        k \in {"OpenAI", "DeepSeek", "Groq", "Xai", "Copilot", "Ollama"},
                        a \in {Some("sk-test"), None}, r \in ModelsResponses}
        /\ trace = << >>
        /\ ret = None

\* Adapter::all_models of the adapter of the kind
AllModels ==
    /\ call.some /\ call.v.op = "all_models" /\ ret = None
    /\ LET kind == call.v.kind
           target == call.v.target
           web_response == call.v.web_response
       IN  ret' = Some(CASE kind = "OpenAI" -> OpenAI_all_models(kind, target, web_response)
                         [] kind = "DeepSeek" -> DeepSeek_all_models(kind, target, web_response)
                         [] kind \in {"Groq", "Xai"} -> Xai_all_models(kind, target, web_response)
                         [] kind = "Copilot" -> Copilot_all_models(kind, target, web_response)
                         [] kind = "Ollama" -> Ollama_all_models(kind, target, web_response))
    /\ UNCHANGED <<streamer_vars, call, trace>>

SpecModels == InitModels /\ [][AllModels]_vars

\* all_models has returned
ModelsListed == call.some /\ call.v.op = "all_models" /\ ret.some

\* the GET succeeded and the data of its body is missing, no array, an empty
\* array, or an array none of whose entries has an id
MalformedData ==
    /\ call.v.web_response.kind = "Ok"
    /\ LET data == call.v.web_response.v.data
       IN  \/ ~data.some
           \/ "array" \notin DOMAIN data.v
           \/ data.v.array = << >>
           \/ \A i \in DOMAIN data.v.array : ~data.v.array[i].id.some

\* the result the claims expect of a fallback: no error, and the static
\* list of the provider where it has one
IsStaticFallback(result) ==
    /\ result.kind = "Ok"
    /\ call.v.kind # "Ollama" => result.v = MODELS(call.v.kind)

\* C16: when the credential resolves and the live endpoint answers with an
\* empty or malformed data array, all_models returns the provider's static
\* model list and no error.
C16_MalformedDataFallsBack ==
    (ModelsListed /\ call.v.target.auth.some /\ MalformedData) => IsStaticFallback(ret.v)

\* C17: when the credential cannot be resolved or the GET fails, all_models
\* returns the provider's static model list and no error.
C17_FailureFallsBack ==
    (ModelsListed /\ (~call.v.target.auth.some \/ call.v.web_response.kind = "Err"))
        => IsStaticFallback(ret.v)

-----------------------------------------------------------------------------
(* Parsing a chat response.  A body is a record of the optional members    *)
(* "model" and "usage" and of the list "choices"; the message of a choice  *)
(* has an optional "content" and an optional "tool_calls" (null, an array  *)
(* of calls, or a value of another type), and the optional members        *)
(* "reasoning" and "reasoning_content" (null or a string).                 *)

\* an unset option read as true
captured_raw_body_UnsetIsTrue(options_set, body) ==
    IF options_set.capture_raw_body.some => options_set.capture_raw_body.v
    THEN Some(body) ELSE None
\* options_set.capture_raw_body().unwrap_or_default().then(|| body.clone())
captured_raw_body(options_set, body) ==
    IF options_set.capture_raw_body.some /\ options_set.capture_raw_body.v
    THEN Some(body) ELSE None

\* extract_think: the first <think>, and the first </think> after it
extract_think(content) ==
    LET start_tag == "<think>"
        end_tag == "</think>"
        RECURSIVE trim_start(_)
        trim_start(text) ==
            IF text # "" /\ SubSeq(text, 1, 1) = " "
            THEN trim_start(SubSeq(text, 2, Len(text))) ELSE text
        RECURSIVE trim(_)
        trim(text) ==
            IF text # "" /\ SubSeq(text, Len(text), Len(text)) = " "
            THEN trim(SubSeq(text, 1, Len(text) - 1)) ELSE trim_start(text)
        start == find(content, start_tag)
        end == find(SubSeq(content, start.v + Len(start_tag), Len(content)), end_tag)
    IN  IF start.some /\ end.some
        THEN LET start_pos == start.v
                 end_pos == start.v + Len(start_tag) + end.v - 1
                 think_content == trim(SubSeq(content, start_pos + Len(start_tag), end_pos - 1))
                 before_think == SubSeq(content, 1, start_pos - 1)
                 after_think ==
                     trim_start(SubSeq(content, end_pos + Len(end_tag), Len(content)))
             IN  [content |-> before_think \o after_think, reasoning |-> Some(think_content)]
        ELSE [content |-> content, reasoning |-> None]

\* OpenAIAdapter::to_chat_response
OpenAI_to_chat_response(model_iden, web_response, options_set) ==
    LET body == web_response.body
        provider_model_iden ==
            IF body.model.some THEN ModelIden(model_iden.adapter_kind, body.model.v)
            ELSE model_iden
        usage == IF body.usage.some
                 THEN [prompt_tokens |-> Some(body.usage.v.prompt_tokens),
                       completion_tokens |-> Some(body.usage.v.completion_tokens),
                       total_tokens |-> Some(body.usage.v.total_tokens)]
                 ELSE [prompt_tokens |-> None, completion_tokens |-> None,
                       total_tokens |-> None]
        RECURSIVE trim(_)
        trim(text) ==
            IF text = "" THEN text
            ELSE IF SubSeq(text, 1, 1) = " " THEN trim(SubSeq(text, 2, Len(text)))
            ELSE IF SubSeq(text, Len(text), Len(text)) = " "
            THEN trim(SubSeq(text, 1, Len(text) - 1))
            ELSE text
        \* parse_tool_calls
        parse_tool_calls(raw_tool_calls) ==
            IF "null" \in DOMAIN raw_tool_calls THEN Ok(<< >>)
            ELSE IF "array" \notin DOMAIN raw_tool_calls
            THEN Err("InvalidJsonResponseElement")
            ELSE Ok(raw_tool_calls.array)
        message == body.choices[1]
        \* x_take::<Option<String>>: Ok(None) for null, an error for a member
        \* that is absent or not a string
        take_string(member) ==
            IF ~member.some THEN Err("PropertyNotFound")
            ELSE IF "null" \in DOMAIN member.v THEN Ok(None)
            ELSE IF "string" \in DOMAIN member.v THEN Ok(Some(member.v.string))
            ELSE Err("Serde")
        \* /message/reasoning .ok().unwrap_or_else(/message/reasoning_content)
        explicit_reasoning ==
            LET taken == IF take_string(message.reasoning).kind = "Ok"
                         THEN take_string(message.reasoning).v
                         ELSE IF take_string(message.reasoning_content).kind = "Ok"
                         THEN take_string(message.reasoning_content).v
                         ELSE None
            IN  IF taken.some THEN Some(trim(taken.v)) ELSE None
        extracted ==
            IF ~explicit_reasoning.some /\ options_set.normalize_reasoning_content = Some(TRUE)
            THEN extract_think(trim(message.content.v))
            ELSE [content |-> trim(message.content.v), reasoning |-> explicit_reasoning]
        reasoning_content ==
            IF body.choices = << >> THEN None
            ELSE IF message.content.some THEN extracted.reasoning
            ELSE explicit_reasoning
        text_content ==
            IF message.content.some /\ extracted.content # ""
            THEN <<[text |-> extracted.content]>> ELSE << >>
        tool_calls == IF message.tool_calls.some THEN parse_tool_calls(message.tool_calls.v)
                      ELSE Ok(<< >>)
        content ==
            IF body.choices = << >> THEN << >>
            ELSE text_content \o (IF message.tool_calls.some
                                  THEN <<[tool_calls |-> tool_calls.v]>> ELSE << >>)
    IN  IF body.choices # << >> /\ tool_calls.kind = "Err" THEN tool_calls
        ELSE Ok([content |-> content, reasoning_content |-> reasoning_content,
                 model_iden |-> model_iden,
                 provider_model_iden |-> provider_model_iden, usage |-> usage,
                 captured_raw_body |-> captured_raw_body(options_set, body)])

\* CopilotAdapter::to_chat_response
Copilot_to_chat_response(model_iden, web_response, options_set) ==
    LET body == web_response.body
        \* serde_json::from_value::<CopilotChatResponse>
        Deserializes ==
            \A i \in DOMAIN body.choices :
                body.choices[i].tool_calls.some
                    => \/ "null" \in DOMAIN body.choices[i].tool_calls.v
                       \/ "array" \in DOMAIN body.choices[i].tool_calls.v
        provider_model_iden ==
            IF body.model.some THEN ModelIden(model_iden.adapter_kind, body.model.v)
            ELSE model_iden
        usage == IF body.usage.some
                 THEN [prompt_tokens |-> Some(body.usage.v.prompt_tokens),
                       completion_tokens |-> Some(body.usage.v.completion_tokens),
                       total_tokens |-> Some(body.usage.v.total_tokens)]
                 ELSE [prompt_tokens |-> None, completion_tokens |-> None,
                       total_tokens |-> None]
        message == body.choices[1]
        text == IF message.content.some /\ message.content.v # ""
                THEN <<[text |-> message.content.v]>> ELSE << >>
        tool_calls ==
            IF message.tool_calls.some /\ "array" \in DOMAIN message.tool_calls.v
            THEN [i \in DOMAIN message.tool_calls.v.array |->
                     [tool_call |-> message.tool_calls.v.array[i]]]
            ELSE << >>
        content == IF body.choices = << >> THEN << >> ELSE text \o tool_calls
    IN  IF ~Deserializes THEN Err("Internal")
        ELSE Ok([content |-> content, reasoning_content |-> None, model_iden |-> model_iden,
                 provider_model_iden |-> provider_model_iden, usage |-> usage,
                 captured_raw_body |-> captured_raw_body(options_set, body)])

\* a call of to_chat_response with a response body and the options of the
\* request
InitResponse ==
    LET Contents == {None, Some(" Hello "), Some(" "), Some(" <think> plan </think> Hi"),
                     Some("So <think>a</think> b <think>c</think>"), Some("</think> x <think>"),
                     Some("<think>only</think>")}
        Reasonings == {None, Some([null |-> TRUE]), Some([string |-> " given "])}
        ReasoningContents == {None, Some([string |-> "other"])}
        ToolCalls == {None, Some([null |-> TRUE]), Some([string |-> "none"]),
                      Some([array |-> <<[call_id |-> "call_1", fn_name |-> "get_weather",
                                          fn_arguments |-> [object |-> << >>]]>>])}
        Choices == {<< >>} \cup {<<[content |-> c, tool_calls |-> t, reasoning |-> r,
                                     reasoning_content |-> rc]>> :
                                    c \in Contents, t \in ToolCalls, r \in Reasonings,
                                    rc \in ReasoningContents}
        Usages == {None, Some([prompt_tokens |-> 3, completion_tokens |-> 4,
                               total_tokens |-> 7])}
        Bodies == [model : {None, Some("gpt-4o-2024-08-06")}, usage : Usages,
                   choices : Choices]
    IN  /\ NoStreamers
        /\ call \in {Some([op |-> "to_chat_response", model_iden |-> ModelIden(k, "gpt-4o"),
                           web_response |-> [body |-> b],
                           options_set |-> [capture_raw_body |-> o,
                                            normalize_reasoning_content |-> n]]) :
                        k \in {"OpenAI", "Copilot"}, b \in Bodies,
                        o \in {None, Some(FALSE), Some(TRUE)},
                        n \in {None, Some(FALSE), Some(TRUE)}}
        /\ trace = << >>
        /\ ret = None

\* Adapter::to_chat_response of the adapter of the model
ToChatResponse ==
    /\ call.some /\ call.v.op = "to_chat_response" /\ ret = None
    /\ ret' = Some(IF call.v.model_iden.adapter_kind = "Copilot"
                   THEN Copilot_to_chat_response(call.v.model_iden, call.v.web_response,
                                                 call.v.options_set)
                   ELSE OpenAI_to_chat_response(call.v.model_iden, call.v.web_response,
                                                call.v.options_set))
    /\ UNCHANGED <<streamer_vars, call, trace>>

SpecResponse == InitResponse /\ [][ToChatResponse]_vars

\* to_chat_response has returned a ChatResponse
ResponseParsed ==
    call.some /\ call.v.op = "to_chat_response" /\ ret.some /\ ret.v.kind = "Ok"

\* C18: the ChatResponse that to_chat_response returns, for the OpenAI and
\* for the Copilot adapter, holds the raw response body as it was received
\* when the capture_raw_body option is true, and holds none when the option
\* is false or unset.
C18_RawBodyIffRequested ==
    ResponseParsed =>
        ret.v.v.captured_raw_body =
            IF call.v.options_set.capture_raw_body = Some(TRUE)
            THEN Some(call.v.web_response.body) ELSE None

\* a response with content and a provider model name parsed with the option
\* set, and so with the body captured
C18_Witness ==
    /\ ResponseParsed
    /\ call.v.options_set.capture_raw_body = Some(TRUE)
    /\ call.v.web_response.body.model.some
    /\ ret.v.v.content # << >>
    /\ ret.v.v.captured_raw_body.some

-----------------------------------------------------------------------------
(* The capabilities of a model, derived from its provider and its name.    *)
(* Token limits are pairs <<Some(input), Some(output)>>, modalities are    *)
(* sets and reasoning efforts are lists.                                   *)

\* Ollama asked before the others
PROVIDER_PRIORITY_OllamaFirst ==
    <<"Ollama", "OpenAI", "Anthropic", "Cohere", "DeepSeek", "Gemini", "Groq", "Xai", "Nebius">>
\* the order in which the other providers are asked
PROVIDER_PRIORITY ==
    <<"OpenAI", "Anthropic", "Cohere", "DeepSeek", "Gemini", "Groq", "Xai", "Nebius", "Ollama">>

\* the openai_* helpers, one member of the record for each of them
OpenAIHelpers(model_id) ==
    LET o_series == starts_with(model_id, "o1") \/ starts_with(model_id, "o3")
                    \/ starts_with(model_id, "o4")
        named == starts_with(model_id, "gpt-4") \/ starts_with(model_id, "gpt-3.5")
                 \/ o_series \/ starts_with(model_id, "chatgpt")
        Limits(input, output) == <<Some(input), Some(output)>>
        \* openai_specific_token_limits
        specific ==
            IF starts_with(model_id, "gpt-4.1") THEN Some(Limits(128000, 32768))
            ELSE IF starts_with(model_id, "gpt-4o") THEN Some(Limits(128000, 16384))
            ELSE IF starts_with(model_id, "o3") THEN Some(Limits(200000, 100000))
            ELSE IF starts_with(model_id, "o4") THEN Some(Limits(200000, 256000))
            ELSE IF starts_with(model_id, "o1") THEN Some(Limits(200000, 100000))
            ELSE IF starts_with(model_id, "gpt-4") /\ contains(model_id, "32k")
            THEN Some(Limits(32768, 32768))
            ELSE IF starts_with(model_id, "gpt-4") THEN Some(Limits(8192, 4096))
            ELSE IF starts_with(model_id, "gpt-3.5") /\ contains(model_id, "16k")
            THEN Some(Limits(16384, 16384))
            ELSE IF starts_with(model_id, "gpt-3.5") THEN Some(Limits(4096, 4096))
            ELSE IF starts_with(model_id, "chatgpt") THEN Some(Limits(16384, 16384))
            ELSE None
    IN  [openai_specific_token_limits |-> specific,
         openai_infer_token_limits |-> IF specific.some THEN specific.v ELSE Limits(4096, 4096),
         openai_supports_streaming |->
             ~contains(model_id, "whisper") /\ ~contains(model_id, "tts")
             /\ ~contains(model_id, "dall-e"),
         openai_supports_tool_calls |-> named,
         openai_supports_json_mode |-> named,
         openai_supports_reasoning |-> o_series,
         openai_infer_input_modalities |->
             {"Text"}
             \cup (IF \/ contains(model_id, "vision") \/ starts_with(model_id, "gpt-4o")
                      \/ starts_with(model_id, "gpt-4.1") \/ o_series
                   THEN {"Image"} ELSE {})
             \cup (IF contains(model_id, "audio") THEN {"Audio"} ELSE {}),
         openai_infer_output_modalities |->
             {"Text"} \cup (IF contains(model_id, "tts") THEN {"Audio"} ELSE {})
                      \cup (IF contains(model_id, "dall-e") THEN {"Image"} ELSE {}),
         openai_infer_reasoning_efforts |->
             IF o_series THEN <<"Low", "Medium", "High", "Budget">> ELSE << >>]

\* provider_token_limits and the table of each provider
provider_token_limits(kind, model_id) ==
    LET Limits(input, output) == <<Some(input), Some(output)>>
        openai_specific_token_limits == OpenAIHelpers(model_id).openai_specific_token_limits
        anthropic_token_limits ==
            IF contains(model_id, "claude-opus-4") THEN Some(Limits(200000, 32000))
            ELSE IF contains(model_id, "claude-sonnet-4") THEN Some(Limits(200000, 64000))
            ELSE IF contains(model_id, "claude-3-7-sonnet") THEN Some(Limits(200000, 8192))
            ELSE IF contains(model_id, "claude-3-5-sonnet") THEN Some(Limits(200000, 8192))
            ELSE IF contains(model_id, "claude-3-5-haiku") THEN Some(Limits(200000, 8192))
            ELSE IF contains(model_id, "claude-3-opus") THEN Some(Limits(200000, 4096))
            ELSE IF contains(model_id, "claude-3-sonnet") THEN Some(Limits(200000, 4096))
            ELSE IF contains(model_id, "claude-3-haiku") THEN Some(Limits(200000, 4096))
            ELSE IF contains(model_id, "claude-2.1") THEN Some(Limits(200000, 4096))
            ELSE IF contains(model_id, "claude-2.0") THEN Some(Limits(100000, 4096))
            ELSE IF contains(model_id, "claude-instant") THEN Some(Limits(100000, 4096))
            ELSE None
        cohere_token_limits ==
            IF contains(model_id, "aya-vision-32b") THEN Some(Limits(128000, 8192))
            ELSE IF contains(model_id, "aya-vision-8b") THEN Some(Limits(128000, 4096))
            ELSE IF contains(model_id, "aya-expanse-32b") THEN Some(Limits(128000, 8192))
            ELSE IF contains(model_id, "aya-expanse-8b") THEN Some(Limits(128000, 4096))
            ELSE IF contains(model_id, "command-a-vision") THEN Some(Limits(128000, 4096))
            ELSE IF contains(model_id, "command-a") THEN Some(Limits(128000, 4096))
            ELSE IF contains(model_id, "command-r-plus") THEN Some(Limits(128000, 4096))
            ELSE IF contains(model_id, "command-r7b") THEN Some(Limits(128000, 4096))
            ELSE IF contains(model_id, "command-r") THEN Some(Limits(128000, 4096))
            ELSE IF contains(model_id, "command-light") THEN Some(Limits(4096, 4096))
            ELSE IF contains(model_id, "command-nightly") THEN Some(Limits(4096, 4096))
            ELSE IF contains(model_id, "command") THEN Some(Limits(4096, 4096))
            ELSE None
        deepseek_token_limits ==
            IF model_id = "deepseek-reasoner" THEN Some(Limits(64000, 8192))
            ELSE IF model_id = "deepseek-chat" THEN Some(Limits(64000, 8192))
            ELSE None
        gemini_token_limits ==
            IF contains(model_id, "gemini-2.5-pro") THEN Some(Limits(2000000, 32768))
            ELSE IF contains(model_id, "gemini-2.5-flash") THEN Some(Limits(1000000, 16384))
            ELSE IF contains(model_id, "gemini-2.5-flash-lite") THEN Some(Limits(1000000, 8192))
            ELSE IF contains(model_id, "gemini-2.0-flash") THEN Some(Limits(1000000, 32768))
            ELSE IF contains(model_id, "gemini-2.0-flash-lite") THEN Some(Limits(1000000, 16384))
            ELSE IF contains(model_id, "gemini-2.0-flash-live") THEN Some(Limits(1000000, 8192))
            ELSE IF contains(model_id, "gemini-1.5-pro") THEN Some(Limits(2000000, 8192))
            ELSE IF contains(model_id, "gemini-1.5-flash") THEN Some(Limits(1000000, 8192))
            ELSE IF contains(model_id, "gemini-1.0-pro") THEN Some(Limits(30720, 2048))
            ELSE IF contains(model_id, "gemini-exp") THEN Some(Limits(2000000, 8192))
            ELSE IF contains(model_id, "embedding") THEN Some(Limits(2048, 768))
            ELSE None
        groq_token_limits ==
            IF contains(model_id, "moonshotai/kimi-k2-instruct") THEN Some(Limits(131072, 16384))
            ELSE IF contains(model_id, "qwen/qwen3-32b") THEN Some(Limits(128000, 32768))
            ELSE IF contains(model_id, "llama-3.3-70b-versatile") THEN Some(Limits(128000, 32768))
            ELSE IF contains(model_id, "llama-3.1-8b-instant") THEN Some(Limits(131072, 131072))
            ELSE IF contains(model_id, "gemma2-9b-it") THEN Some(Limits(8192, 8192))
            ELSE IF contains(model_id, "meta-llama/llama-guard-4-12b")
            THEN Some(Limits(131072, 1024))
            ELSE IF contains(model_id, "deepseek-r1-distill-llama-70b")
            THEN Some(Limits(128000, 32768))
            ELSE IF contains(model_id, "meta-llama/llama-4-maverick-17b-128e-instruct")
            THEN Some(Limits(131072, 8192))
            ELSE IF contains(model_id, "meta-llama/llama-4-scout-17b-16e-instruct")
            THEN Some(Limits(131072, 8192))
            ELSE IF contains(model_id, "meta-llama/llama-prompt-guard-2")
            THEN Some(Limits(512, 512))
            ELSE IF contains(model_id, "llama-3.1-405b-reasoning")
            THEN Some(Limits(131072, 32768))
            ELSE IF contains(model_id, "llama-3.1-70b-versatile") THEN Some(Limits(131072, 32768))
            ELSE IF contains(model_id, "llama-3.2-90b-vision") THEN Some(Limits(131072, 32768))
            ELSE IF contains(model_id, "llama-3.2-11b-vision") THEN Some(Limits(131072, 16384))
            ELSE IF contains(model_id, "llama-3.2-3b-preview") THEN Some(Limits(131072, 32768))
            ELSE IF contains(model_id, "llama-3.2-1b-preview") THEN Some(Limits(131072, 32768))
            ELSE IF contains(model_id, "mixtral-8x7b-32768") THEN Some(Limits(32768, 32768))
            ELSE IF contains(model_id, "llama3-70b-8192") THEN Some(Limits(8192, 8192))
            ELSE IF contains(model_id, "llama-guard-3-8b") THEN Some(Limits(8192, 8192))
            ELSE IF contains(model_id, "gemma-7b-it") THEN Some(Limits(8192, 8192))
            ELSE None
        xai_token_limits ==
            IF model_id = "grok-4-0709" THEN Some(Limits(256000, 32768))
            ELSE IF model_id = "grok-3" THEN Some(Limits(131072, 32768))
            ELSE IF model_id = "grok-3-mini" THEN Some(Limits(131072, 16384))
            ELSE IF model_id = "grok-3-fast" THEN Some(Limits(131072, 32768))
            ELSE IF model_id = "grok-3-mini-fast" THEN Some(Limits(131072, 8192))
            ELSE IF model_id = "grok-2-vision-1212" THEN Some(Limits(32768, 8192))
            ELSE IF contains(model_id, "grok-4") THEN Some(Limits(256000, 32768))
            ELSE IF contains(model_id, "grok-3") THEN Some(Limits(131072, 32768))
            ELSE IF contains(model_id, "grok") THEN Some(Limits(131072, 32768))
            ELSE None
        zai_token_limits ==
            IF model_id = "glm-4.5" THEN Some(Limits(128000, 32768))
            ELSE IF model_id = "glm-4.5-x" THEN Some(Limits(128000, 32768))
            ELSE IF model_id = "glm-4.5-air" THEN Some(Limits(128000, 16384))
            ELSE IF model_id = "glm-4.5-airx" THEN Some(Limits(128000, 16384))
            ELSE IF model_id = "glm-4.5-flash" THEN Some(Limits(128000, 8192))
            ELSE IF model_id = "glm-4-32b-0414-128k" THEN Some(Limits(128000, 32768))
            ELSE IF starts_with(model_id, "glm-4-plus") THEN Some(Limits(128000, 32768))
            ELSE IF starts_with(model_id, "glm-4-air") THEN Some(Limits(128000, 16384))
            ELSE IF starts_with(model_id, "glm-4-flash") THEN Some(Limits(128000, 8192))
            ELSE IF starts_with(model_id, "glm-4-long") THEN Some(Limits(1000000, 32768))
            ELSE IF contains(model_id, "4v") THEN Some(Limits(128000, 16384))
            ELSE IF starts_with(model_id, "glm-z1") THEN Some(Limits(128000, 16384))
            ELSE IF contains(model_id, "thinking") THEN Some(Limits(128000, 32768))
            ELSE IF starts_with(model_id, "glm-4") THEN Some(Limits(128000, 16384))
            ELSE IF starts_with(model_id, "glm") THEN Some(Limits(128000, 8192))
            ELSE None
        nebius_token_limits == Some(Limits(128000, 8192))
        ollama_token_limits == Some(Limits(32768, 8192))
    IN  CASE kind \in {"OpenAI", "OpenAIResp", "Copilot", "Fireworks", "Together"}
               -> openai_specific_token_limits
          [] kind = "Anthropic" -> anthropic_token_limits
          [] kind = "Cohere" -> cohere_token_limits
          [] kind = "DeepSeek" -> deepseek_token_limits
          [] kind = "Gemini" -> gemini_token_limits
          [] kind = "Groq" -> groq_token_limits
          [] kind = "Xai" -> xai_token_limits
          [] kind = "Nebius" -> nebius_token_limits
          [] kind = "Ollama" -> ollama_token_limits
          [] kind = "Zai" -> zai_token_limits

\* the provider_* helper of a capability: the rule of the provider for the
\* model, or None when the provider has no rule for it
provider_rule(capability, kind, model_id) ==
    LET openai == OpenAIHelpers(model_id)
        all_efforts == <<"Low", "Medium", "High", "Budget">>
        claude_4 == contains(model_id, "claude-4") \/ contains(model_id, "claude-opus-4")
                    \/ contains(model_id, "claude-sonnet-4")
        grok_reasoning == model_id = "grok-4-0709" \/ model_id = "grok-3-mini"
                          \/ model_id = "grok-3-mini-fast"
        glm_thinking == contains(model_id, "glm-4.5") /\ ~contains(model_id, "air")
        \* cohere_supports_json_mode
        cohere_supports_json_mode ==
            IF contains(model_id, "aya-") THEN TRUE ELSE ~contains(model_id, "command-light")
        \* deepseek_supports_json_mode
        deepseek_supports_json_mode ==
            model_id = "deepseek-chat" \/ model_id = "deepseek-reasoner"
        provider_supports_streaming ==
            IF kind \in {"OpenAI", "OpenAIResp"} THEN Some(openai.openai_supports_streaming)
            ELSE Some(TRUE)
        provider_supports_json_mode ==
            CASE kind \in {"OpenAI", "OpenAIResp"} -> Some(openai.openai_supports_json_mode)
              [] kind = "Cohere" -> Some(cohere_supports_json_mode)
              [] kind = "DeepSeek" -> Some(deepseek_supports_json_mode)
              [] kind \in {"Anthropic", "Gemini"} -> Some(FALSE)
              [] kind \in {"Fireworks", "Groq", "Together", "Xai", "Nebius", "Ollama", "Zai",
                           "Copilot"} -> Some(TRUE)
        provider_supports_reasoning ==
            CASE kind \in {"OpenAI", "OpenAIResp"} -> Some(openai.openai_supports_reasoning)
              [] kind = "Anthropic" -> Some(claude_4)
              [] kind = "DeepSeek" -> Some(contains(model_id, "reasoner"))
              [] kind = "Gemini" ->
                   Some(contains(model_id, "thinking") \/ contains(model_id, "2.5"))
              [] kind = "Groq" -> Some(contains(model_id, "qwen3-32b"))
              [] kind = "Xai" -> Some(grok_reasoning)
              [] kind = "Zai" -> Some(glm_thinking)
              [] OTHER -> None
        With(modality, condition) == IF condition THEN {modality} ELSE {}
        provider_input_modalities ==
            CASE kind = "Anthropic" ->
                   Some({"Text"} \cup With("Image",
                        \/ contains(model_id, "claude-3") \/ contains(model_id, "claude-4")
                        \/ contains(model_id, "claude-opus-4")
                        \/ contains(model_id, "claude-sonnet-4")
                        \/ contains(model_id, "claude-2.1")))
              [] kind = "Cohere" ->
                   Some({"Text"} \cup With("Image",
                        contains(model_id, "vision") \/ contains(model_id, "aya-vision")))
              [] kind = "Gemini" ->
                   Some({"Text"}
                        \cup With("Image", ~contains(model_id, "embedding")
                                           /\ ~contains(model_id, "text-embedding"))
                        \cup With("Audio", contains(model_id, "2.0-flash-live")))
              [] kind = "Groq" ->
                   Some({"Text"} \cup With("Image",
                        \/ contains(model_id, "vision") \/ contains(model_id, "llama-3.2-90b")
                        \/ contains(model_id, "llama-3.2-11b")))
              [] kind = "Xai" ->
                   Some({"Text"} \cup With("Image",
                        model_id = "grok-4-0709" \/ contains(model_id, "grok-2-vision-1212")))
              [] kind = "Zai" ->
                   Some({"Text"} \cup With("Image",
                        contains(model_id, "4v") \/ contains(model_id, "vision")))
              [] kind = "OpenAI" -> Some(openai.openai_infer_input_modalities)
              [] OTHER -> None
        provider_output_modalities ==
            IF kind = "OpenAI" THEN Some(openai.openai_infer_output_modalities) ELSE None
        provider_reasoning_efforts ==
            CASE kind = "OpenAI" -> Some(openai.openai_infer_reasoning_efforts)
              [] kind = "Anthropic" -> IF claude_4 THEN Some(all_efforts) ELSE None
              [] kind \in {"Gemini", "DeepSeek"} -> Some(all_efforts)
              [] kind = "Groq" ->
                   IF contains(model_id, "qwen3-32b") THEN Some(all_efforts) ELSE None
              [] kind = "Xai" -> IF grok_reasoning THEN Some(all_efforts) ELSE None
              [] kind = "Zai" -> IF glm_thinking THEN Some(<<"High">>) ELSE None
              [] OTHER -> None
    IN  CASE capability = "infer_token_limits" -> provider_token_limits(kind, model_id)
          [] capability = "supports_streaming" -> provider_supports_streaming
          [] capability = "supports_json_mode" -> provider_supports_json_mode
          [] capability = "supports_reasoning" -> provider_supports_reasoning
          [] capability = "infer_input_modalities" -> provider_input_modalities
          [] capability = "infer_output_modalities" -> provider_output_modalities
          [] capability = "infer_reasoning_efforts" -> provider_reasoning_efforts

\* provider_fallback! with the provider_* helper of the capability as
\* $self_func: the rule of the provider itself, else the first rule of
\* another provider in PROVIDER_PRIORITY, else the default
provider_fallback(capability, adapter_kind, model_id, default) ==
    LET self_func(kind, id) == provider_rule(capability, kind, id)
        RECURSIVE loop(_)
        loop(i) ==
            IF i > Len(PROVIDER_PRIORITY) THEN default
            ELSE IF PROVIDER_PRIORITY[i] = adapter_kind THEN loop(i + 1)
            ELSE IF self_func(PROVIDER_PRIORITY[i], model_id).some
            THEN self_func(PROVIDER_PRIORITY[i], model_id).v
            ELSE loop(i + 1)
    IN  IF self_func(adapter_kind, model_id).some THEN self_func(adapter_kind, model_id).v
        ELSE loop(1)

\* tool calls of the other providers decided by the OpenAI rule
ModelCapabilities_ToolCallsByOpenAIRule(capability, adapter_kind, model_id) ==
    LET openai == OpenAIHelpers(model_id)
        cohere_supports_tool_calls ==
            \/ contains(model_id, "command-r")
            \/ contains(model_id, "command-a")
            \/ contains(model_id, "command-nightly")
            \/ contains(model_id, "aya-")
        deepseek_supports_tool_calls == model_id \in {"deepseek-chat", "deepseek-reasoner"}
        \* supports_tool_calls: a match on the kind, no fallback chain
        supports_tool_calls ==
            IF adapter_kind = "Cohere" THEN cohere_supports_tool_calls
            ELSE IF adapter_kind = "DeepSeek" THEN deepseek_supports_tool_calls
            ELSE openai.openai_supports_tool_calls
        default ==
            CASE capability = "infer_token_limits" -> openai.openai_infer_token_limits
              [] capability = "supports_streaming" -> openai.openai_supports_streaming
              [] capability = "supports_json_mode" -> openai.openai_supports_json_mode
              [] capability = "supports_reasoning" -> openai.openai_supports_reasoning
              [] capability = "infer_input_modalities" -> openai.openai_infer_input_modalities
              [] capability = "infer_output_modalities" -> openai.openai_infer_output_modalities
              [] capability = "infer_reasoning_efforts" -> openai.openai_infer_reasoning_efforts
    IN  IF capability = "supports_tool_calls" THEN supports_tool_calls
        ELSE provider_fallback(capability, adapter_kind, model_id, default)
\* the public functions of ModelCapabilities: supports_tool_calls matches on
\* the kind; the others resolve with provider_fallback!, each with its
\* openai_* helper as the default
ModelCapabilities(capability, adapter_kind, model_id) ==
    LET openai == OpenAIHelpers(model_id)
        cohere_supports_tool_calls ==
            \/ contains(model_id, "command-r")
            \/ contains(model_id, "command-a")
            \/ contains(model_id, "command-nightly")
            \/ contains(model_id, "aya-")
        deepseek_supports_tool_calls == model_id \in {"deepseek-chat", "deepseek-reasoner"}
        \* supports_tool_calls: a match on the kind, no fallback chain
        supports_tool_calls ==
            IF adapter_kind = "OpenAI" THEN openai.openai_supports_tool_calls
            ELSE IF adapter_kind = "Cohere" THEN cohere_supports_tool_calls
            ELSE IF adapter_kind = "DeepSeek" THEN deepseek_supports_tool_calls
            ELSE TRUE
        default ==
            CASE capability = "infer_token_limits" -> openai.openai_infer_token_limits
              [] capability = "supports_streaming" -> openai.openai_supports_streaming
              [] capability = "supports_json_mode" -> openai.openai_supports_json_mode
              [] capability = "supports_reasoning" -> openai.openai_supports_reasoning
              [] capability = "infer_input_modalities" -> openai.openai_infer_input_modalities
              [] capability = "infer_output_modalities" -> openai.openai_infer_output_modalities
              [] capability = "infer_reasoning_efforts" -> openai.openai_infer_reasoning_efforts
    IN  IF capability = "supports_tool_calls" THEN supports_tool_calls
        ELSE provider_fallback(capability, adapter_kind, model_id, default)

\* a call of one of the capability functions for a provider and a model name
InitCapabilities ==
    LET Capabilities == {"infer_token_limits", "supports_streaming", "supports_tool_calls",
                         "supports_json_mode", "supports_reasoning", "infer_input_modalities",
                         "infer_output_modalities", "infer_reasoning_efforts"}
        ModelIds == {"my-model", "unknown-model-x", "gpt-4o", "gpt-4-32k", "o3-mini",
                     "claude-sonnet-4", "command-light", "deepseek-reasoner",
                     "gemini-2.5-flash", "qwen/qwen3-32b", "llama-3.2-11b-vision-preview",
                     "grok-3-mini", "grok-2-vision-1212", "glm-4.5", "glm-4.5-air",
                     "text-embedding-3-small", "whisper-1", "command-r-plus",
                     "deepseek-chat"}
        AdapterKinds == {"OpenAI", "OpenAIResp", "Anthropic", "Cohere", "Copilot", "DeepSeek",
                         "Fireworks", "Gemini", "Groq", "Together", "Xai", "Nebius", "Ollama",
                         "Zai"}
    IN  /\ NoStreamers
        /\ call \in {Some([op |-> "ModelCapabilities", capability |-> c, adapter_kind |-> k,
                           model_id |-> m]) :
                        c \in Capabilities, k \in AdapterKinds, m \in ModelIds}
        /\ trace = << >>
        /\ ret = None

\* the capability function is called and returns; trace keeps the results of
\* the calls
Infer ==
    /\ call.some /\ call.v.op = "ModelCapabilities" /\ ret = None
    /\ Len(trace) < MaxCalls
    /\ LET v == ModelCapabilities(call.v.capability, call.v.adapter_kind, call.v.model_id)
       IN  /\ ret' = Some(v)
           /\ trace' = Append(trace, v)
    /\ UNCHANGED <<streamer_vars, call>>

\* the caller makes the same call once more
InferAgain ==
    /\ call.some /\ call.v.op = "ModelCapabilities" /\ ret.some
    /\ Len(trace) < MaxCalls
    /\ ret' = None
    /\ UNCHANGED <<streamer_vars, call, trace>>

NextCapabilities == Infer \/ InferAgain

SpecCapabilities == InitCapabilities /\ [][NextCapabilities]_vars

\* a capability function has returned
CapabilityResolved == call.some /\ call.v.op = "ModelCapabilities" /\ ret.some

\* a capability that goes through the fallback chain has been resolved
ChainResolved == CapabilityResolved /\ call.v.capability # "supports_tool_calls"

\* the values the claim gives for the generic default rule set
GenericDefault(capability) ==
    CASE capability = "infer_token_limits" -> <<Some(4096), Some(4096)>>
      [] capability = "supports_streaming" -> TRUE
      [] capability = "supports_json_mode" -> FALSE
      [] capability = "supports_reasoning" -> FALSE
      [] capability = "infer_input_modalities" -> {"Text"}
      [] capability = "infer_output_modalities" -> {"Text"}
      [] capability = "infer_reasoning_efforts" -> << >>

\* C19: for a model name that matches no naming rule of any provider, every
\* capability function returns, under every provider, the value of the
\* generic default rule set: limits (4096, 4096), streaming, no JSON mode, no
\* reasoning, text as the only input and output modality, no reasoning
\* effort.
C19_UnrecognizedGetsGenericDefault ==
    (ChainResolved /\ call.v.model_id \in {"my-model", "unknown-model-x"})
        => ret.v = GenericDefault(call.v.capability)

\* C20: the result of a capability function is the rule of the queried
\* provider when it has one; else the rule of the first provider that has
\* one in the order OpenAI, Anthropic, Cohere, DeepSeek, Gemini, Groq, Xai,
\* Nebius, Ollama, the queried provider left out; else the OpenAI default of
\* the capability; and every call with the same provider and model name
\* returns the same result.
C20_OwnRuleThenPriorityThenDefault ==
    ChainResolved =>
        LET Order == <<"OpenAI", "Anthropic", "Cohere", "DeepSeek", "Gemini", "Groq", "Xai",
                       "Nebius", "Ollama">>
            kind == call.v.adapter_kind
            rule(k) == provider_rule(call.v.capability, k, call.v.model_id)
            Others == {i \in DOMAIN Order : Order[i] # kind /\ rule(Order[i]).some}
        IN  /\ rule(kind).some => ret.v = rule(kind).v
            /\ (~rule(kind).some /\ Others # {})
                   => \E i \in Others : /\ \A j \in Others : i <= j
                                        /\ ret.v = rule(Order[i]).v
            /\ (~rule(kind).some /\ Others = {})
                   => ret.v = GenericDefault(call.v.capability)
            /\ \A i \in DOMAIN trace : trace[i] = ret.v

\* the token limits of an xAI model name asked of OpenAI twice: OpenAI has no
\* rule for it, and the rule of Xai comes before those of Nebius and Ollama
C20_Witness ==
    /\ CapabilityResolved
    /\ call.v.capability = "infer_token_limits"
    /\ call.v.adapter_kind = "OpenAI"
    /\ call.v.model_id = "grok-3-mini"
    /\ ret.v = <<Some(131072), Some(16384)>>
    /\ Len(trace) = MaxCalls

-----------------------------------------------------------------------------
(* The items of a frame *)

\* a frame that deserializes and has no non-empty text delta, no tool-call
\* fragment with an id and a name, and no finish_reason
EmptyFrame(event) ==
    /\ event.ev = "Message"
    /\ ~IsDoneMarker(event.data)
    /\ event.data.value.some
    /\ ~HasText(event)
    /\ ~HasCompleteToolCall(event)
    /\ ~(FirstChoiceOf(event).some /\ FirstChoiceOf(event).v.finish_reason.some)

\* the transport events that streamer i reads in the step
ReadInStep(i) == SubSeq(delivered'[i], Len(delivered[i]) + 1, Len(delivered'[i]))

\* C22: a frame with nothing to yield produces no item and does not make the
\* streamer Done, and the poll that read it goes on to the next transport
\* event: it is the last event a poll reads only when the transport is closed
\* behind it.
C22_EmptyFrameYieldsNothing ==
    /\ [](\A i \in Streamers :
            /\ Len(out[i]) = Cardinality({k \in DOMAIN delivered[i] :
                                             /\ ~EmptyFrame(delivered[i][k])
                                             /\ delivered[i][k] /= NotReady})
            /\ done[i] => ~EmptyFrame(delivered[i][Len(delivered[i])]))
    /\ [][\A i \in Streamers :
            Poll(i) =>
                \A k \in DOMAIN ReadInStep(i) :
                    EmptyFrame(ReadInStep(i)[k]) =>
                        \/ k < Len(ReadInStep(i))
                        \/ /\ event_source'[i] = << >>
                           /\ last'[i] = ReadyNone
                           /\ out'[i] = out[i]
                           /\ done'[i] = done[i]]_vars

\* one poll read a frame with an empty delta, then the frame of "Hello", and
\* yielded the Chunk of the second
C22_Witness ==
    /\ Len(delivered[1]) = 2
    /\ EmptyFrame(delivered[1][1])
    /\ FirstChoiceOf(delivered[1][1]).some
    /\ delivered[1][2] = EventMessage(Hello)
    /\ out[1] = <<Chunk(<<"Hello">>)>>
    /\ ~done[1]

\* C23: a poll returns Pending only when the transport poll returned Pending,
\* after nothing but frames with nothing to yield; every other poll yields
\* exactly one item or reports the end of the sequence; and the fields of a
\* streamer change in no step but a poll of it (or its drop).
C23_PendingOnlyFromTransport ==
    [][\A i \in Streamers :
          /\ Poll(i) =>
                LET reads == ReadInStep(i)
                IN  /\ last'[i] = Pending =>
                          /\ reads /= << >>
                          /\ reads[Len(reads)] = NotReady
                          /\ \A k \in 1..(Len(reads) - 1) : EmptyFrame(reads[k])
                          /\ out'[i] = out[i]
                    /\ last'[i] /= Pending =>
                          \/ last'[i] = ReadyNone /\ out'[i] = out[i]
                          \/ /\ last'[i].poll = "Ready" /\ last'[i].item.some
                             /\ out'[i] = Append(out[i], last'[i].item.v)
          /\ <<event_source[i], options[i], done[i], captured_data[i], out[i]>>
                /= <<event_source'[i], options'[i], done'[i], captured_data'[i], out'[i]>>
                => Poll(i) \/ Drop(i)]_vars

\* a poll read a heartbeat, found the transport not ready and returned
\* Pending without yielding anything
C23_Witness ==
    /\ delivered[1] = <<EventMessage(Heartbeat), NotReady>>
    /\ last[1] = Pending
    /\ out[1] = << >>
    /\ ~done[1]

-----------------------------------------------------------------------------
(* The arguments of a tool call *)

\* the empty JSON object
JsonEmptyObject == [object |-> << >>]

\* the complete fragments of the frames read so far
CompleteFragments(i) ==
    UNION {{FirstChoiceOf(delivered[i][n]).v.delta.tool_calls.v[k] :
                k \in {x \in 1..Len(FirstChoiceOf(delivered[i][n]).v.delta.tool_calls.v) :
                          IsCompleteToolCall(FirstChoiceOf(delivered[i][n]).v.delta.tool_calls.v[x])}} :
           n \in {x \in 1..Len(delivered[i]) : HasCompleteToolCall(delivered[i][x])}}

\* what the arguments of a fragment are said to become
ArgumentsOrEmptyObject(function) ==
    IF function.arguments.some /\ JsonFromStr(function.arguments.v).some
    THEN JsonFromStr(function.arguments.v).v
    ELSE JsonEmptyObject

\* C24: the tool call emitted (and captured) for a complete fragment has the
\* parsed value of the argument string when that string is valid JSON, and the
\* empty JSON object when the string is absent or not valid JSON.
C24_InvalidArgumentsGiveEmptyObject ==
    \A i \in Streamers :
        LET Emitted == {out[i][n].tool_call : n \in Positions(out[i], "ToolCallChunk")}
            Captured == IF captured_data[i].tool_calls.some
                        THEN {captured_data[i].tool_calls.v[n] :
                                 n \in 1..Len(captured_data[i].tool_calls.v)}
                        ELSE {}
        IN  \A tool_call \in Emitted \cup Captured :
                \A f \in CompleteFragments(i) :
                    f.id.v = tool_call.call_id
                        => tool_call.fn_arguments = ArgumentsOrEmptyObject(f.function.v)

-----------------------------------------------------------------------------
(* Frames that carry several items *)

\* the items of one frame, in frame order: its non-empty text, then one
\* ToolCallChunk for each complete fragment
ItemsOfFrame(event) ==
    IF ~FirstChoiceOf(event).some
    THEN << >>
    ELSE LET delta == FirstChoiceOf(event).v.delta
             text == IF delta.content.some /\ delta.content.v /= << >>
                     THEN <<Chunk(delta.content.v)>>
                     ELSE << >>
             fragments == IF delta.tool_calls.some
                          THEN SelectSeq(delta.tool_calls.v, IsCompleteToolCall)
                          ELSE << >>
         IN  text \o [k \in 1..Len(fragments) |->
                         ToolCallChunk(ToolCall(fragments[k].id.v, fragments[k].function.v.name.v,
                                                FnArguments(fragments[k].function.v)))]

RECURSIVE ItemsOfFrames(_)
ItemsOfFrames(events) ==
    IF events = << >>
    THEN << >>
    ELSE ItemsOfFrames(SubSeq(events, 1, Len(events) - 1)) \o ItemsOfFrame(events[Len(events)])

IsFrameItem(item) == item.kind \in {"Chunk", "ToolCallChunk"}

\* C26: no item of a parsed frame is lost: the text and tool-call items the
\* streamer has emitted are, in order, the non-empty text and every complete
\* tool-call fragment of every frame it has read, whether a frame carries one
\* such item or several.
C26_NoItemOfAFrameIsLost ==
    \A i \in Streamers :
        SelectSeq(out[i], IsFrameItem) = ItemsOfFrames(delivered[i])

-----------------------------------------------------------------------------
(* A stream that is polled to its end *)

\* Open, a finite run of well-formed frames, then [DONE]
WholeStream(events) ==
    /\ Len(events) >= 2
    /\ Head(events) = EventOpen
    /\ events[Len(events)] = EventMessage(DoneData)
    /\ \A k \in 2..(Len(events) - 1) :
          \/ events[k] = NotReady
          \/ events[k].ev = "Message" /\ events[k].data.value.some

\* C27: when the transport delivers Open, a finite run of well-formed frames
\* and then [DONE], and the caller keeps polling, the streamer eventually
\* emits End and from then on reports the end of the stream; a run of
\* heartbeats does not keep it from getting there.
C27_PolledStreamEnds ==
    WholeStream(event_source[1])
        => <>[](dropped[1] \/ (EndEmitted(1) /\ last[1] = ReadyNone))

\* a stream with two heartbeats in a row was polled to End and past it
C27_Witness ==
    /\ ~dropped[1]
    /\ Len(delivered[1]) >= 4
    /\ delivered[1][1] = EventOpen
    /\ delivered[1][2] = EventMessage(Heartbeat)
    /\ delivered[1][3] = EventMessage(Heartbeat)
    /\ delivered[1][Len(delivered[1])] = EventMessage(DoneData)
    /\ EndEmitted(1)
    /\ last[1] = ReadyNone

-----------------------------------------------------------------------------
(* The reasoning of a chat response *)

RECURSIVE StrTrimStart(_)
StrTrimStart(text) ==
    IF text # "" /\ SubSeq(text, 1, 1) = " " THEN StrTrimStart(SubSeq(text, 2, Len(text)))
    ELSE text

RECURSIVE StrTrim(_)
StrTrim(text) ==
    IF text # "" /\ SubSeq(text, Len(text), Len(text)) = " "
    THEN StrTrim(SubSeq(text, 1, Len(text) - 1))
    ELSE StrTrimStart(text)

\* the places of a tag in a text
TagsAt(text, tag) == {k \in 1..(Len(text) - Len(tag) + 1) : SubSeq(text, k, k + Len(tag) - 1) = tag}

\* the text of the first reasoning member of a message that holds one
ExplicitReasoning(message) ==
    IF message.reasoning.some /\ "string" \in DOMAIN message.reasoning.v
    THEN Some(message.reasoning.v.string)
    ELSE IF message.reasoning_content.some /\ "string" \in DOMAIN message.reasoning_content.v
    THEN Some(message.reasoning_content.v.string)
    ELSE None

\* the text part of a parsed response, "" when it has none
ResponseText(response) ==
    IF response.content # << >> /\ "text" \in DOMAIN response.content[1]
    THEN response.content[1].text ELSE ""

\* C25: in the response the OpenAI adapter parses, an explicit reasoning
\* member of the first choice gives the reasoning and the content is left as
\* it is; only when there is none and normalize_reasoning_content is true is
\* the first <think>...</think> span split out of the content: the reasoning
\* is the trimmed text between the tags, the content is the text before the
\* opening tag followed by the left-trimmed text after the closing tag; a
\* content without such a span is unchanged and gives no reasoning.
C25_ExplicitReasoningThenThinkSpan ==
    (ResponseParsed /\ call.v.model_iden.adapter_kind = "OpenAI"
        /\ call.v.web_response.body.choices # << >>) =>
        LET message == call.v.web_response.body.choices[1]
            explicit == ExplicitReasoning(message)
            normalize == call.v.options_set.normalize_reasoning_content = Some(TRUE)
            raw == IF message.content.some THEN StrTrim(message.content.v) ELSE ""
            opening == TagsAt(raw, "<think>")
            open_at == CHOOSE k \in opening : \A j \in opening : k <= j
            closing == {k \in TagsAt(raw, "</think>") : k >= open_at + 7}
            close_at == CHOOSE k \in closing : \A j \in closing : k <= j
            HasSpan == opening # {} /\ closing # {}
        IN  IF explicit.some
            THEN /\ ret.v.v.reasoning_content = Some(StrTrim(explicit.v))
                 /\ ResponseText(ret.v.v) = raw
            ELSE IF normalize /\ message.content.some /\ HasSpan
            THEN /\ ret.v.v.reasoning_content =
                        Some(StrTrim(SubSeq(raw, open_at + 7, close_at - 1)))
                 /\ ResponseText(ret.v.v) =
                        SubSeq(raw, 1, open_at - 1)
                            \o StrTrimStart(SubSeq(raw, close_at + 8, Len(raw)))
            ELSE /\ ret.v.v.reasoning_content = None
                 /\ ResponseText(ret.v.v) = raw

-----------------------------------------------------------------------------
(* Tool-call support *)

\* C30: supports_tool_calls looks at the queried provider only and never at
\* the fallback chain: OpenAI, Cohere and DeepSeek answer by their own
\* model-name rules, and every other provider answers true for every name.
C30_ToolCallsByQueriedProviderOnly ==
    (CapabilityResolved /\ call.v.capability = "supports_tool_calls") =>
        LET kind == call.v.adapter_kind
            model_id == call.v.model_id
        IN  ret.v =
                IF kind = "OpenAI"
                THEN \E prefix \in {"gpt-4", "gpt-3.5", "o1", "o3", "o4", "chatgpt"} :
                        starts_with(model_id, prefix)
                ELSE IF kind = "Cohere"
                THEN \E part \in {"command-r", "command-a", "command-nightly", "aya-"} :
                        contains(model_id, part)
                ELSE IF kind = "DeepSeek"
                THEN model_id \in {"deepseek-chat", "deepseek-reasoner"}
                ELSE TRUE

\* Groq is asked about command-light, a name that neither the Cohere nor the
\* OpenAI rule accepts, and answers true
C30_Witness ==
    /\ CapabilityResolved
    /\ call.v.capability = "supports_tool_calls"
    /\ call.v.adapter_kind = "Groq"
    /\ call.v.model_id = "command-light"
    /\ ret.v = TRUE

-----------------------------------------------------------------------------
(* The Model descriptor: Model::new, its builder methods, and the          *)
(* descriptors the adapters build from ModelCapabilities for a model id.   *)

\* Model::new
Model_new(name, id) ==
    [name |-> name, id |-> id,
     max_input_tokens |-> None, max_output_tokens |-> None,
     supported_input_modalities |-> {"Text"}, supported_output_modalities |-> {"Text"},
     supports_reasoning |-> FALSE, supported_reasoning_efforts |-> None,
     supports_tool_calls |-> FALSE, supports_streaming |-> FALSE, supports_json_mode |-> FALSE,
     additional_properties |-> None]

\* a with_reasoning that leaves the efforts as they are
with_reasoning_KeepsEfforts(model, supports) == [model EXCEPT !.supports_reasoning = supports]

\* Model::with_reasoning
with_reasoning(model, supports) ==
    [model EXCEPT !.supports_reasoning = supports,
                  !.supported_reasoning_efforts = IF supports THEN @ ELSE None]

\* the builder methods of Model
ModelWith(model, method, arg) ==
    CASE method = "with_max_input_tokens" -> [model EXCEPT !.max_input_tokens = arg]
      [] method = "with_max_output_tokens" -> [model EXCEPT !.max_output_tokens = arg]
      [] method = "with_input_modalities" -> [model EXCEPT !.supported_input_modalities = arg]
      [] method = "with_output_modalities" -> [model EXCEPT !.supported_output_modalities = arg]
      [] method = "with_input_modality" ->
            [model EXCEPT !.supported_input_modalities = @ \cup {arg}]
      [] method = "with_output_modality" ->
            [model EXCEPT !.supported_output_modalities = @ \cup {arg}]
      [] method = "with_reasoning" -> with_reasoning(model, arg)
      [] method = "with_reasoning_efforts" ->
            [model EXCEPT !.supported_reasoning_efforts = Some({arg[i] : i \in DOMAIN arg}),
                          !.supports_reasoning = TRUE]
      [] method = "with_tool_calls" -> [model EXCEPT !.supports_tool_calls = arg]
      [] method = "with_streaming" -> [model EXCEPT !.supports_streaming = arg]
      [] method = "with_json_mode" -> [model EXCEPT !.supports_json_mode = arg]
      [] method = "with_additional_properties" ->
            [model EXCEPT !.additional_properties = Some(arg)]

\* parse_openai_model_to_model, and the same chain in the Groq, xAI, Zai and
\* DeepSeek adapters; for Ollama the chain of OllamaAdapter::all_models, whose
\* additional properties are the listed entry with its id taken out
parse_model_to_model(kind, model_id) ==
    LET \* the builder calls, in the order the adapter makes them
        builder_calls(capability) ==
            LET limits == <<<<"with_max_input_tokens", capability["infer_token_limits"][1]>>,
                            <<"with_max_output_tokens", capability["infer_token_limits"][2]>>>>
                features == <<<<"with_streaming", capability["supports_streaming"]>>,
                              <<"with_tool_calls", capability["supports_tool_calls"]>>,
                              <<"with_json_mode", capability["supports_json_mode"]>>>>
                reasoning == <<<<"with_reasoning", capability["supports_reasoning"]>>>>
                modalities ==
                    <<<<"with_input_modalities", capability["infer_input_modalities"]>>,
                      <<"with_output_modalities", capability["infer_output_modalities"]>>>>
                efforts == <<<<"with_reasoning_efforts", capability["infer_reasoning_efforts"]>>>>
            IN  IF kind = "Ollama"
                THEN limits \o modalities \o reasoning \o efforts
                     \o <<<<"with_tool_calls", capability["supports_tool_calls"]>>,
                           <<"with_streaming", capability["supports_streaming"]>>,
                           <<"with_json_mode", capability["supports_json_mode"]>>,
                           <<"with_additional_properties", [id |-> JsonDefault]>>>>
                     \o modalities
                ELSE limits \o features \o reasoning \o modalities
                     \o (IF capability["supports_reasoning"] THEN efforts ELSE << >>)
        RECURSIVE built(_, _)
        built(calls, n) ==
            IF n = 0 THEN Model_new(model_id, model_id)
            ELSE ModelWith(built(calls, n - 1), calls[n][1], calls[n][2])
        describe(calls) == built(calls, Len(calls))
    IN  describe(builder_calls(
            [name \in {"infer_token_limits", "supports_streaming", "supports_tool_calls",
                       "supports_json_mode", "supports_reasoning", "infer_input_modalities",
                       "infer_output_modalities", "infer_reasoning_efforts"} |->
                ModelCapabilities(name, kind, model_id)]))

\* a Model fresh from Model::new, about to be built on; or a model id an
\* adapter is about to describe
InitDescriptors ==
    /\ NoStreamers
    /\ call \in {Some([op |-> "Model::new", name |-> "my-model", id |-> "my-model"])} \cup
                {Some([op |-> "parse_model_to_model", adapter_kind |-> k, model_id |-> m]) :
                    k \in {"OpenAI", "DeepSeek", "Groq", "Xai", "Zai", "Ollama"},
                    m \in {"my-model", "gpt-4o", "o3-mini", "deepseek-chat", "deepseek-reasoner",
                           "qwen/qwen3-32b", "grok-3-mini", "glm-4.5", "llama3.2"}}
    /\ trace = << >>
    /\ ret = IF call.v.op = "Model::new" THEN Some(Model_new(call.v.name, call.v.id)) ELSE None

\* one builder method is called on the Model; trace keeps the calls made
Build ==
    /\ call.some /\ call.v.op = "Model::new"
    /\ Len(trace) < MaxBuilds
    /\ \E built \in
            [method : {"with_max_input_tokens", "with_max_output_tokens"},
             arg : {None, Some(8192)}] \cup
            [method : {"with_input_modalities", "with_output_modalities"},
             arg : {{"Text", "Image"}}] \cup
            [method : {"with_input_modality", "with_output_modality"}, arg : {"Audio"}] \cup
            [method : {"with_reasoning", "with_tool_calls", "with_streaming", "with_json_mode"},
             arg : BOOLEAN] \cup
            [method : {"with_reasoning_efforts"}, arg : {<< >>, <<"Low", "High">>}] \cup
            [method : {"with_additional_properties"}, arg : {[owned_by |-> "me"]}] :
          /\ ret' = Some(ModelWith(ret.v, built.method, built.arg))
          /\ trace' = Append(trace, built)
    /\ UNCHANGED <<streamer_vars, call>>

\* the adapter builds the descriptor of the model id
Describe ==
    /\ call.some /\ call.v.op = "parse_model_to_model" /\ ret = None
    /\ ret' = Some(parse_model_to_model(call.v.adapter_kind, call.v.model_id))
    /\ UNCHANGED <<streamer_vars, call, trace>>

SpecDescriptors == InitDescriptors /\ [][Build \/ Describe]_vars

\* an adapter has built the descriptor of a model id
Described == call.some /\ call.v.op = "parse_model_to_model" /\ ret.some

\* C28: the descriptor that the OpenAI, DeepSeek, Groq, xAI, Zai or Ollama
\* adapter builds for a model id has supports_reasoning equal to
\* ModelCapabilities::supports_reasoning(kind, id), and has
\* supported_reasoning_efforts set only when that value is true.
C28_DescriptorReasoningFromCapabilities ==
    Described =>
        LET supports ==
                ModelCapabilities("supports_reasoning", call.v.adapter_kind, call.v.model_id)
        IN  /\ ret.v.supports_reasoning = supports
            /\ ret.v.supported_reasoning_efforts.some => supports

\* C29: after any sequence of builder calls on a Model from Model::new,
\* supported_reasoning_efforts is Some only if supports_reasoning is true;
\* with_reasoning(false) clears the efforts, with_reasoning_efforts sets
\* supports_reasoning to true, and no other builder method changes either
\* field.
C29_EffortsOnlyWithReasoning ==
    /\ []((call.some /\ call.v.op = "Model::new")
             => (ret.v.supported_reasoning_efforts.some => ret.v.supports_reasoning))
    /\ [][Build =>
            LET built == trace'[Len(trace')]
            IN  /\ (built.method = "with_reasoning" /\ built.arg = FALSE)
                      => /\ ret'.v.supported_reasoning_efforts = None
                         /\ ~ret'.v.supports_reasoning
                /\ (built.method = "with_reasoning" /\ built.arg = TRUE)
                      => /\ ret'.v.supported_reasoning_efforts = ret.v.supported_reasoning_efforts
                         /\ ret'.v.supports_reasoning
                /\ built.method = "with_reasoning_efforts"
                      => /\ ret'.v.supported_reasoning_efforts.some
                         /\ ret'.v.supports_reasoning
                /\ built.method \notin {"with_reasoning", "with_reasoning_efforts"}
                      => /\ ret'.v.supported_reasoning_efforts = ret.v.supported_reasoning_efforts
                         /\ ret'.v.supports_reasoning = ret.v.supports_reasoning]_vars

\* efforts were set and then with_reasoning(false) cleared them
C29_Witness ==
    /\ call.some /\ call.v.op = "Model::new"
    /\ Len(trace) = 2
    /\ trace[1] = [method |-> "with_reasoning_efforts", arg |-> <<"Low", "High">>]
    /\ trace[2] = [method |-> "with_reasoning", arg |-> FALSE]
    /\ ret.v.supported_reasoning_efforts = None
    /\ ~ret.v.supports_reasoning

====
